---- MODULE Spec2Model ----
(***************************************************************************)
(* A model of openqed's grid: Grid (openqed/grid/grid.py) and KSpaceGrid   *)
(* (openqed/grid/k_space_grid.py), and of the Hamiltonian terms and        *)
(* assemblies built on it (openqed/hamiltonians).                          *)
(*                                                                         *)
(* Numbers.  The program computes in float64.  Every value the grid code   *)
(* produces from the modelled inputs lies in the field Q(sqrt 3): axis     *)
(* values are start + k*step, the hexagonal cell has entries a, a/2 and    *)
(* a*3**0.5/2, and the projection takes sums of products of these.  A      *)
(* number is modelled exactly as a record [p, q, d] standing for           *)
(* (p + q*sqrt(3)) / d with d > 0 and gcd(p, q, d) = 1, so equal numbers   *)
(* are equal records.  Rounding of float64 is not modelled.                *)
(*                                                                         *)
(* The real-space lattice parameter is measured in units of 2*pi: the      *)
(* input alpha stands for the float 2*pi*alpha, so that the factor 2*pi of *)
(* get_k_space_hexagonal_cell cancels and the basis stays in Q(sqrt 3).    *)
(***************************************************************************)
EXTENDS Integers, Sequences, FiniteSets, TLC

VARIABLES
    spacing,        \* self.spacing: a dict of [key, value] entries; None before construction
    boundaries,     \* self.boundaries: a dict of [key, min, max] entries; None before construction
    mesh,           \* self.mesh: a tuple of arrays; MeshUnset when __init__ never assigned it
    _flat_grid,     \* self._flat_grid: None or the cached array (an object with an identity)
    call,           \* the last call made on the grid, with its arguments
    result,         \* what that call returned or raised
    n_projections,  \* projections stored in the cache since construction (bounds the model)
    hamiltonian,    \* the Hamiltonian assembly built on the grid; None before its construction
    term            \* the term built on its own on the grid, as the tests do; None before

vars == <<spacing, boundaries, mesh, _flat_grid, call, result, n_projections, hamiltonian, term>>

----------------------------------------------------------------------------
(* Bounds of the model *)

\* Caching projections allowed in one behaviour.
MaxProjections == 2

\* The largest num_eigenvalues a caller asks for.
MaxEigenvalues == 2

----------------------------------------------------------------------------
(* Exact arithmetic in Q(sqrt 3) *)

IAbs(n) == IF n < 0 THEN -n ELSE n

RECURSIVE Gcd(_, _)
Gcd(a, b) == IF b = 0 THEN a ELSE Gcd(b, a % b)

\* (p + q*sqrt 3)/d in lowest terms; d > 0.
Norm(p, q, d) ==
    LET g == Gcd(Gcd(IAbs(p), IAbs(q)), d)
    IN  [p |-> p \div g, q |-> q \div g, d |-> d \div g]

QInt(n) == [p |-> n, q |-> 0, d |-> 1]
QRat(n, m) == Norm(n, 0, m)
QZero == QInt(0)
\* 3**0.5
Sqrt3 == [p |-> 0, q |-> 1, d |-> 1]

QAdd(a, b) == Norm(a.p * b.d + b.p * a.d, a.q * b.d + b.q * a.d, a.d * b.d)
QNeg(a) == [p |-> -a.p, q |-> -a.q, d |-> a.d]
QSub(a, b) == QAdd(a, QNeg(b))
QMul(a, b) == Norm(a.p * b.p + 3 * a.q * b.q, a.p * b.q + a.q * b.p, a.d * b.d)

\* 1/a for a # 0: the conjugate over the norm p^2 - 3 q^2.
QInv(a) ==
    LET n == a.p * a.p - 3 * a.q * a.q
    IN  IF n > 0 THEN Norm(a.p * a.d, -(a.q * a.d), n)
                 ELSE Norm(-(a.p * a.d), a.q * a.d, -n)
QDiv(a, b) == QMul(a, QInv(b))

\* The sign of p + q*sqrt 3, decided in the integers.
QSign(a) ==
    CASE a.p >= 0 /\ a.q >= 0 -> IF a.p = 0 /\ a.q = 0 THEN 0 ELSE 1
      [] a.p <= 0 /\ a.q <= 0 -> -1
      [] a.p > 0 /\ a.q < 0 -> IF a.p * a.p > 3 * a.q * a.q THEN 1 ELSE -1
      [] OTHER -> IF 3 * a.q * a.q > a.p * a.p THEN 1 ELSE -1

QLess(a, b) == QSign(QSub(b, a)) = 1
QAbs(a) == IF QSign(a) < 0 THEN QNeg(a) ELSE a

----------------------------------------------------------------------------
(* Values: None, exceptions, numpy arrays *)

None == [tag |-> "None"]
MeshUnset == [tag |-> "unset"]
Tuple(items) == [tag |-> "tuple", items |-> items]
Raise(exc) == [tag |-> "raise", exc |-> exc]
IsRaise(r) == r.tag = "raise"
\* What a constructor call leaves in `result`: the exception, or None.
Raised(new) == IF IsRaise(new) THEN new ELSE None
\* What `x = Class(...)` leaves in x: the old object if the constructor
\* raised, else the new one.
Bound(old, new) == IF IsRaise(new) THEN old ELSE new

\* An ndarray object: identity, shape, and the data in row-major (C) order.
NDArray(id, shape, data) == [tag |-> "ndarray", id |-> id, shape |-> shape, data |-> data]
IsArray(v) == v.tag = "ndarray"

RECURSIVE Prod(_)
Prod(s) == IF s = <<>> THEN 1 ELSE Head(s) * Prod(Tail(s))

\* a[i, j] of a 2-D array, 0-based as in numpy.
At(a, i, j) == a.data[i * a.shape[2] + j + 1]
\* a[i] of a 2-D array: the row as a tuple.
Row(a, i) == [j \in 1..a.shape[2] |-> At(a, i, j - 1)]
NRows(a) == a.shape[1]

\* The identities of the arrays that are still referenced.
LiveIds == (IF IsArray(_flat_grid) THEN {_flat_grid.id} ELSE {})
           \cup (IF IsArray(result) THEN {result.id} ELSE {})

----------------------------------------------------------------------------
(* Dictionaries.  A Python dict keeps insertion order: its items are a     *)
(* sequence.  The float64 boundaries and spacings of the modelled          *)
(* configurations are whole multiples of one unit, held as integers; the   *)
(* spacing is positive, as the constructor's contract asks.                *)

B(k, lo, hi) == [key |-> k, min |-> lo, max |-> hi]
S(k, v) == [key |-> k, value |-> v]

Dict(items) == [tag |-> "dict", items |-> items]
\* len(dict.keys())
DictLen(dict) == Len(dict.items)
\* list(dict.keys())[i - 1]
KeyAt(dict, i) == dict.items[i].key
HasKey(dict, k) == \E i \in 1..DictLen(dict) : dict.items[i].key = k
\* dict[k], for a key the dict has
Lookup(dict, k) == dict.items[CHOOSE i \in 1..DictLen(dict) : dict.items[i].key = k]
\* dict.keys(), compared as a set
KeySet(dict) == { KeyAt(dict, k) : k \in 1..DictLen(dict) }
\* A str object.
Str(s) == [tag |-> "str", value |-> s]
\* dict.get(k): the value, or None
Get(dict, k) == IF HasKey(dict, k) THEN Lookup(dict, k).value ELSE None
\* dict[k] = v: replaces the value of an existing key, appends a new key
DictSet(dict, k, v) ==
    IF HasKey(dict, k)
    THEN Dict([i \in 1..DictLen(dict) |->
                 IF KeyAt(dict, i) = k THEN S(k, v) ELSE dict.items[i]])
    ELSE Dict(Append(dict.items, S(k, v)))

\* The configurations a caller constructs a grid from.
Configs ==
    { \* one axis
      [boundaries |-> Dict(<<B("x", 0, 3)>>),
       spacing |-> Dict(<<S("x", 1)>>)],
      [boundaries |-> Dict(<<B("x", -1, 4)>>),
       spacing |-> Dict(<<S("x", 2)>>)],
      \* two axes
      [boundaries |-> Dict(<<B("x", 0, 2), B("y", 0, 2)>>),
       spacing |-> Dict(<<S("x", 1), S("y", 1)>>)],
      [boundaries |-> Dict(<<B("x", -1, 2), B("y", 0, 3)>>),
       spacing |-> Dict(<<S("y", 1), S("x", 2)>>)],
      [boundaries |-> Dict(<<B("x", 0, 2), B("y", 1, 1)>>),
       spacing |-> Dict(<<S("x", 1), S("y", 1)>>)],
      \* three axes
      [boundaries |-> Dict(<<B("x", 0, 2), B("y", 0, 3), B("z", -1, 1)>>),
       spacing |-> Dict(<<S("x", 1), S("y", 1), S("z", 1)>>)],
      \* no axis, four axes
      [boundaries |-> Dict(<<>>),
       spacing |-> Dict(<<>>)],
      [boundaries |-> Dict(<<B("x", 0, 2), B("y", 0, 2), B("z", 0, 2), B("w", 0, 2)>>),
       spacing |-> Dict(<<S("x", 1), S("y", 1), S("z", 1), S("w", 1)>>)],
      \* key sets that differ
      [boundaries |-> Dict(<<B("x", 0, 2)>>),
       spacing |-> Dict(<<S("x", 1), S("y", 1)>>)],
      [boundaries |-> Dict(<<B("x", 0, 2)>>),
       spacing |-> Dict(<<S("y", 1)>>)] }

----------------------------------------------------------------------------
(* numpy *)

\* np.arange(start, stop, step), step > 0: ceil((stop - start)/step) values
\* start + k*step.
ArangeLen(start, stop, step) ==
    IF stop <= start THEN 0 ELSE ((stop - start - 1) \div step) + 1
Arange(start, stop, step) ==
    [k \in 1..ArangeLen(start, stop, step) |-> QInt(start + (k - 1) * step)]

\* np.meshgrid(*space, indexing='ij'): array k has the shape (n_1, ..., n_D)
\* and holds space[k][i_k] at the index (i_1, ..., i_D).
MeshShape(space) == [k \in 1..Len(space) |-> Len(space[k])]
Stride(shape, k) == Prod(SubSeq(shape, k + 1, Len(shape)))
Meshgrid(space) ==
    LET shape == MeshShape(space)
    IN  [k \in 1..Len(space) |->
            [shape |-> shape,
             data |-> [l \in 1..Prod(shape) |->
                        space[k][(((l - 1) \div Stride(shape, k)) % shape[k]) + 1]]]]

\* ndarray.flatten(): the data in row-major order.
Flatten(a) == a.data

\* np.vstack(cols).T: row i holds element i of every column.
VStackT(cols) ==
    LET d == Len(cols)
        n == Len(cols[1])
    IN  [shape |-> <<n, d>>,
         data |-> [l \in 1..(n * d) |-> cols[((l - 1) % d) + 1][((l - 1) \div d) + 1]]]

\* np.dot(a, m) of an N x 2 array and a 2 x 2 matrix <<<<m11, m12>>, <<m21, m22>>>>.
Dot(a, m) ==
    [shape |-> a.shape,
     data |-> [l \in 1..Len(a.data) |->
                LET i == (l - 1) \div 2
                    j == ((l - 1) % 2) + 1
                IN  QAdd(QMul(At(a, i, 0), m[1][j]), QMul(At(a, i, 1), m[2][j]))]]

\* np.linalg.inv of a 2 x 2 matrix, and its transpose .T
Inv2(m) ==
    LET det == QSub(QMul(m[1][1], m[2][2]), QMul(m[1][2], m[2][1]))
    IN  << <<QDiv(m[2][2], det), QDiv(QNeg(m[1][2]), det)>>,
           <<QDiv(QNeg(m[2][1]), det), QDiv(m[1][1], det)>> >>
Transpose2(m) == << <<m[1][1], m[2][1]>>, <<m[1][2], m[2][2]>> >>

----------------------------------------------------------------------------
(* Grid.__init__ and KSpaceGrid.__init__ *)

Constructed == spacing # None

\* Grid.dimensions
dimensions == DictLen(spacing)

\* The per-axis ranges, in the order of the spacing keys.
Space(bnd, spc) ==
    [k \in 1..DictLen(spc) |->
        Arange(Lookup(bnd, KeyAt(spc, k)).min, Lookup(bnd, KeyAt(spc, k)).max,
               Lookup(spc, KeyAt(spc, k)).value)]

\* The mesh KSpaceGrid.__init__ builds; no attribute is set for other
\* numbers of axes.
BuildMesh(bnd, spc) ==
    IF DictLen(spc) \in {1, 2, 3} THEN Tuple(Meshgrid(Space(bnd, spc))) ELSE MeshUnset

\* The constructor without the comparison of the two key counts.
InitOutcome_no_length_check(cfg) ==
    IF \E k \in 1..DictLen(cfg.spacing) : ~HasKey(cfg.boundaries, KeyAt(cfg.spacing, k))
    THEN Raise("KeyError")
    ELSE None

\* What the constructor does with a configuration: the exception it raises,
\* or None when the object is built.
InitOutcome(cfg) ==
    IF DictLen(cfg.spacing) # DictLen(cfg.boundaries) THEN Raise("ValueError")
    ELSE IF \E k \in 1..DictLen(cfg.spacing) : ~HasKey(cfg.boundaries, KeyAt(cfg.spacing, k))
         THEN Raise("KeyError")
    ELSE None

Init ==
    /\ spacing = None
    /\ boundaries = None
    /\ mesh = MeshUnset
    /\ _flat_grid = None
    /\ call = [op |-> "none"]
    /\ result = None
    /\ n_projections = 0
    /\ hamiltonian = None
    /\ term = None

\* KSpaceGrid(boundaries=..., spacing=...)
Construct(cfg) ==
    /\ ~Constructed
    /\ call' = [op |-> "__init__", cfg |-> cfg]
    /\ result' = InitOutcome(cfg)
    /\ IF IsRaise(InitOutcome(cfg))
       THEN UNCHANGED <<spacing, boundaries, mesh>>
       ELSE /\ spacing' = cfg.spacing
            /\ boundaries' = cfg.boundaries
            /\ mesh' = BuildMesh(cfg.boundaries, cfg.spacing)
    /\ UNCHANGED <<_flat_grid, n_projections, hamiltonian, term>>

----------------------------------------------------------------------------
(* KSpaceGrid: grid_size, deallocate_flat_grid, flat_grid *)

\* An identity for a new array, different from every live array's and from
\* those of the temporaries in `others`.
NewId(others) == CHOOSE i \in 0..3 : i \notin (LiveIds \cup others)

\* KSpaceGrid.grid_size: the length of the mesh's first axis.
grid_size == mesh.items[1].shape[1]

\* The enumeration flat_grid computes from the mesh when nothing is cached
\* (shape and data; np.array([]) for a number of axes other than 1, 2, 3).
ComputeFlatGrid ==
    CASE dimensions = 1 -> [shape |-> <<grid_size, 1>>, data |-> Flatten(mesh.items[1])]
      [] dimensions = 2 -> VStackT(<<Flatten(mesh.items[1]), Flatten(mesh.items[2])>>)
      [] dimensions = 3 -> VStackT(<<Flatten(mesh.items[1]), Flatten(mesh.items[2]),
                                     Flatten(mesh.items[3])>>)
      [] OTHER -> [shape |-> <<0>>, data |-> <<>>]

\* Mutant: with cache_result set, flat_grid recomputes and overwrites an
\* existing cache.
flat_grid_overwrite(cache_result) ==
    IF _flat_grid # None /\ ~cache_result
    THEN [ret |-> _flat_grid, cache |-> _flat_grid]
    ELSE LET flat_gr == NDArray(NewId({}), ComputeFlatGrid.shape, ComputeFlatGrid.data)
         IN  [ret |-> flat_gr, cache |-> IF cache_result THEN flat_gr ELSE _flat_grid]

\* Mutant: flat_grid stores what it computes whatever cache_result is.
flat_grid_always_caches(cache_result) ==
    IF _flat_grid # None
    THEN [ret |-> _flat_grid, cache |-> _flat_grid]
    ELSE LET flat_gr == NDArray(NewId({}), ComputeFlatGrid.shape, ComputeFlatGrid.data)
         IN  [ret |-> flat_gr, cache |-> flat_gr]

\* flat_grid(cache_result): the array it returns and the cache afterwards.
flat_grid(cache_result) ==
    IF _flat_grid # None
    THEN [ret |-> _flat_grid, cache |-> _flat_grid]
    ELSE LET flat_gr == NDArray(NewId({}), ComputeFlatGrid.shape, ComputeFlatGrid.data)
         IN  [ret |-> flat_gr, cache |-> IF cache_result THEN flat_gr ELSE _flat_grid]

\* Mutant: the terms and assemblies work on the enumeration of the mesh,
\* whatever the grid holds at the time of the call.
grid_flat_grid_of_mesh ==
    [ret |-> NDArray(NewId({}), ComputeFlatGrid.shape, ComputeFlatGrid.data),
     cache |-> _flat_grid]

\* Mutant: the terms and assemblies ask the grid to cache what it computes.
grid_flat_grid_cached == flat_grid(TRUE)

\* self.hamiltonian.grid.flat_grid() / self.grid.flat_grid(), as the terms
\* and the assemblies call it: cache_result keeps its default, False.
grid_flat_grid == flat_grid(FALSE)

\* Mutant: deallocate_flat_grid only collects garbage.
deallocate_flat_grid_keeps == _flat_grid

\* deallocate_flat_grid(): the cache afterwards.
deallocate_flat_grid == None

----------------------------------------------------------------------------
(* Grid.get_point_index *)

IntResult(n) == [tag |-> "int", value |-> n]

\* Mutant: the bitmap is built from the first axis alone.
MatchingRows_first_axis(fg, point) ==
    { r \in 0..(NRows(fg) - 1) :
        QLess(QAbs(QSub(At(fg, r, 0), point[1])),
              QDiv(QInt(Lookup(spacing, KeyAt(spacing, 1)).value), QInt(2))) }

\* The rows of the flat grid that lie within half a spacing of the point on
\* every axis: np.where(grid_bitmap)[0].
MatchingRows(fg, point) ==
    { r \in 0..(NRows(fg) - 1) :
        \A i \in 1..dimensions :
            QLess(QAbs(QSub(At(fg, r, i - 1), point[i])),
                  QDiv(QInt(Lookup(spacing, KeyAt(spacing, i)).value), QInt(2))) }

Min(set) == CHOOSE m \in set : \A n \in set : m <= n

\* Mutant: with several matching rows the first one is returned.
PointIndex_first_match(fg, point) ==
    IF Len(point) # dimensions THEN Raise("ValueError")
    ELSE IF Len(fg.shape) # 2 THEN Raise("IndexError")
    ELSE LET index == MatchingRows(fg, point)
         IN  IF index = {} THEN Raise("IndexError")
             ELSE IntResult(Min(index))

\* Mutant: only a point with too few coordinates is rejected.
PointIndex_min_dims(fg, point) ==
    IF Len(point) < dimensions THEN Raise("ValueError")
    ELSE IF Len(fg.shape) # 2 THEN Raise("IndexError")
    ELSE LET index == MatchingRows(fg, point)
         IN  IF Cardinality(index) > 1 THEN Raise("ValueError")
             ELSE IF index = {} THEN Raise("IndexError")
             ELSE IntResult(Min(index))

\* The body of get_point_index once flat_grid() has returned fg: the index
\* it returns or the exception it raises.
PointIndex(fg, point) ==
    IF Len(point) # dimensions THEN Raise("ValueError")
    \* flat_grid[:, 0] of the one-dimensional np.array([])
    ELSE IF Len(fg.shape) # 2 THEN Raise("IndexError")
    ELSE LET index == MatchingRows(fg, point)
         IN  IF Cardinality(index) > 1 THEN Raise("ValueError")
             \* index[0] of an empty array
             ELSE IF index = {} THEN Raise("IndexError")
             ELSE IntResult(Min(index))

\* get_point_index(point)
get_point_index(point) == PointIndex(flat_grid(FALSE).ret, point)

----------------------------------------------------------------------------
(* get_k_space_hexagonal_cell and KSpaceGrid.project_to_unit_cell *)

Matrix(m) == [tag |-> "matrix", m |-> m]

\* The hexagonal lattice [[a, 0], [a/2, a * 3**0.5 / 2]].
HexLattice(a) ==
    << <<a, QZero>>,
       <<QDiv(a, QInt(2)), QDiv(QMul(a, Sqrt3), QInt(2))>> >>

\* get_k_space_hexagonal_cell(real, k).  `real` stands for the lattice
\* parameter 2*pi*real, and 2*pi * inv(2*pi * L).T = inv(L).T.
get_k_space_hexagonal_cell(real_space_lattice_parameter, k_space_lattice_parameter) ==
    IF real_space_lattice_parameter # None
    THEN Matrix(Transpose2(Inv2(HexLattice(real_space_lattice_parameter))))
    ELSE IF k_space_lattice_parameter # None
    THEN Matrix(HexLattice(k_space_lattice_parameter))
    ELSE Raise("ValueError")

\* Mutant: the projected grid is stored whatever cache_result is.
project_to_unit_cell_always_caches(real_space_lattice_parameter, k_space_lattice_parameter, cache_result) ==
    IF dimensions # 2
    THEN [ret |-> Raise("NotImplementedError"), cache |-> _flat_grid]
    ELSE LET fg == flat_grid(FALSE).ret
             cell == get_k_space_hexagonal_cell(real_space_lattice_parameter,
                                                k_space_lattice_parameter)
         IN  IF IsRaise(cell)
             THEN [ret |-> cell, cache |-> _flat_grid]
             ELSE LET prod == Dot(fg, cell.m)
                      flat_gr == NDArray(NewId({fg.id}), prod.shape, prod.data)
                  IN  [ret |-> flat_gr, cache |-> flat_gr]

\* Mutant: the projection transforms the enumeration of the mesh, whatever
\* the cache holds.
project_to_unit_cell_of_mesh(real_space_lattice_parameter, k_space_lattice_parameter, cache_result) ==
    IF dimensions # 2
    THEN [ret |-> Raise("NotImplementedError"), cache |-> _flat_grid]
    ELSE LET cell == get_k_space_hexagonal_cell(real_space_lattice_parameter,
                                                k_space_lattice_parameter)
         IN  IF IsRaise(cell)
             THEN [ret |-> cell, cache |-> _flat_grid]
             ELSE LET prod == Dot(ComputeFlatGrid, cell.m)
                      flat_gr == NDArray(NewId({IF _flat_grid # None THEN _flat_grid.id ELSE 0}),
                                         prod.shape, prod.data)
                  IN  [ret |-> flat_gr,
                       cache |-> IF cache_result THEN flat_gr ELSE _flat_grid]

\* project_to_unit_cell(real, k, cache_result): what it returns or raises,
\* and the cache afterwards.
project_to_unit_cell(real_space_lattice_parameter, k_space_lattice_parameter, cache_result) ==
    IF dimensions # 2
    THEN [ret |-> Raise("NotImplementedError"), cache |-> _flat_grid]
    ELSE LET fg == flat_grid(FALSE).ret
             cell == get_k_space_hexagonal_cell(real_space_lattice_parameter,
                                                k_space_lattice_parameter)
         IN  IF IsRaise(cell)
             THEN [ret |-> cell, cache |-> _flat_grid]
             ELSE LET prod == Dot(fg, cell.m)
                      flat_gr == NDArray(NewId({fg.id}), prod.shape, prod.data)
                  IN  [ret |-> flat_gr,
                       cache |-> IF cache_result THEN flat_gr ELSE _flat_grid]

----------------------------------------------------------------------------
(* The calls a user of the grid makes *)

\* Lattice parameters passed to project_to_unit_cell.  The real-space one
\* is 2*pi*1 (the test suite's 3.32/Bohr is 2*pi*0.9985).
RealSpaceLatticeParameters == {None, QInt(1)}
KSpaceLatticeParameters == {None, QRat(1, 2)}

\* The rows of a two-dimensional array, as points.
Rows(a) == IF Len(a.shape) = 2 THEN {Row(a, i) : i \in 0..(NRows(a) - 1)} ELSE {}

\* A point moved along the first axis by num/den of that axis' spacing.
Shifted(pt, num, den) ==
    [pt EXCEPT ![1] = QAdd(pt[1], QRat(num * spacing.items[1].value, den))]

\* The points get_point_index is asked about: the rows of the current flat
\* grid and of the enumeration of the mesh; the first row moved by a quarter
\* and by a half of the spacing; a point far from the grid; and points with
\* a coordinate too few or too many.
QueryPoints ==
    IF ~Constructed THEN {}
    ELSE
    LET current == flat_grid(FALSE).ret
        rows == Rows(current) \cup Rows(ComputeFlatGrid)
        first == IF Rows(current) = {} THEN {} ELSE {Row(current, 0)}
    IN  rows
        \cup {Shifted(pt, 1, 4) : pt \in first}
        \cup {Shifted(pt, 1, 2) : pt \in first}
        \cup {[i \in 1..dimensions |-> QInt(7)]}
        \cup {SubSeq(pt, 1, Len(pt) - 1) : pt \in first}
        \cup {Append(pt, QZero) : pt \in first}
        \cup {[i \in 1..(dimensions + 1) |-> QZero]}

FlatGrid(cache_result) ==
    /\ Constructed
    /\ call' = [op |-> "flat_grid", cache_result |-> cache_result]
    /\ result' = flat_grid(cache_result).ret
    /\ _flat_grid' = flat_grid(cache_result).cache
    /\ UNCHANGED <<spacing, boundaries, mesh, n_projections, hamiltonian, term>>

DeallocateFlatGrid ==
    /\ Constructed
    /\ call' = [op |-> "deallocate_flat_grid"]
    /\ result' = None
    /\ _flat_grid' = deallocate_flat_grid
    /\ UNCHANGED <<spacing, boundaries, mesh, n_projections, hamiltonian, term>>

GetPointIndex(point) ==
    /\ Constructed
    /\ call' = [op |-> "get_point_index", point |-> point]
    /\ result' = get_point_index(point)
    /\ UNCHANGED <<spacing, boundaries, mesh, _flat_grid, n_projections, hamiltonian, term>>

ProjectToUnitCell(real, k, cache_result) ==
    LET out == project_to_unit_cell(real, k, cache_result)
    IN  /\ Constructed
        /\ cache_result => n_projections < MaxProjections
        /\ call' = [op |-> "project_to_unit_cell", real_space_lattice_parameter |-> real,
                    k_space_lattice_parameter |-> k, cache_result |-> cache_result]
        /\ result' = out.ret
        /\ _flat_grid' = out.cache
        /\ n_projections' = IF cache_result /\ IsArray(out.ret)
                            THEN n_projections + 1 ELSE n_projections
        /\ UNCHANGED <<spacing, boundaries, mesh, hamiltonian, term>>

Next ==
    \/ \E cfg \in Configs : Construct(cfg)
    \/ \E c \in BOOLEAN : FlatGrid(c)
    \/ DeallocateFlatGrid
    \/ \E pt \in QueryPoints : GetPointIndex(pt)
    \/ \E real \in RealSpaceLatticeParameters, k \in KSpaceLatticeParameters, c \in BOOLEAN :
          ProjectToUnitCell(real, k, c)

Spec == Init /\ [][Next]_vars

----------------------------------------------------------------------------
(* KineticTerm (openqed/hamiltonians/terms/kinetic_term.py).  A term is     *)
(* built on a Hamiltonian whose grid is the grid of this model; the term    *)
(* reads the grid through hamiltonian.grid.flat_grid().                     *)

\* np.isclose(a, 0) with numpy's default tolerances, |a| <= 1e-8, for a
\* rational a = p/d (masses are rational): |p| * 10**8 <= d.
IsCloseToZero(a) == IAbs(a.p) <= a.d \div 100000000

\* The mass setter that stores the mass before it validates it.
KineticTerm_mass_setter_stores_first(self, mass) ==
    [ret |-> IF IsCloseToZero(mass) THEN Raise("ValueError") ELSE None,
     self |-> [self EXCEPT !._mass = mass]]

\* KineticTerm.mass = mass: the exception raised or None, and the term after
\* the assignment.
KineticTerm_mass_setter(self, mass) ==
    IF IsCloseToZero(mass)
    THEN [ret |-> Raise("ValueError"), self |-> self]
    ELSE [ret |-> None, self |-> [self EXCEPT !._mass = mass]]

\* KineticTerm(hamiltonian, mass=mass) on a k-space grid: the exception
\* raised, or the new term.  Before `self.mass = mass` the object has no
\* mass.
KineticTerm_init(mass) ==
    LET set == KineticTerm_mass_setter([tag |-> "KineticTerm", _mass |-> None], mass)
    IN  IF IsRaise(set.ret) THEN set.ret ELSE set.self

RECURSIVE SquaredNorm(_)
\* np.linalg.norm(row)**2
SquaredNorm(row) ==
    IF row = <<>> THEN QZero
    ELSE QAdd(QMul(Head(row), Head(row)), SquaredNorm(Tail(row)))

\* np.linalg.norm(flat_grid, axis=1)**2 / (2 * mass) for a 2-D array; a 1-D
\* array has no axis 1.
KineticEnergies(fg, mass) ==
    IF Len(fg.shape) # 2 THEN Raise("AxisError")
    ELSE NDArray(NewId({fg.id}), <<NRows(fg)>>,
                 [i \in 1..NRows(fg) |->
                     QDiv(SquaredNorm(Row(fg, i - 1)), QMul(QInt(2), mass))])

\* KineticTerm.get_hamiltonian_term()
KineticTerm_get_hamiltonian_term(self) ==
    KineticEnergies(grid_flat_grid.ret, self._mass)

\* The masses a caller passes: zero, within 1e-8 of zero, positive, negative.
Masses == {QZero, QRat(1, 1000000000), QRat(1, 2), QNeg(QRat(1, 2))}

KineticTermInit(mass) ==
    /\ Constructed
    /\ call' = [op |-> "KineticTerm.__init__", mass |-> mass]
    /\ result' = Raised(KineticTerm_init(mass))
    /\ term' = Bound(term, KineticTerm_init(mass))
    /\ UNCHANGED <<spacing, boundaries, mesh, _flat_grid, n_projections, hamiltonian>>

KineticTermSetMass(mass) ==
    /\ term.tag = "KineticTerm"
    /\ call' = [op |-> "KineticTerm.mass", mass |-> mass]
    /\ result' = KineticTerm_mass_setter(term, mass).ret
    /\ term' = KineticTerm_mass_setter(term, mass).self
    /\ UNCHANGED <<spacing, boundaries, mesh, _flat_grid, n_projections, hamiltonian>>

KineticTermGetHamiltonianTerm ==
    /\ term.tag = "KineticTerm"
    /\ call' = [op |-> "KineticTerm.get_hamiltonian_term"]
    /\ result' = KineticTerm_get_hamiltonian_term(term)
    /\ _flat_grid' = grid_flat_grid.cache
    /\ UNCHANGED <<spacing, boundaries, mesh, n_projections, hamiltonian, term>>

----------------------------------------------------------------------------
(* Bilayer types (openqed/hamiltonians/types/bilayer_excitons.py) and       *)
(* FreeExciton (openqed/hamiltonians/terms/free_exciton.py).  A              *)
(* BilayerStructure is a dict from the slots substrate1, layer1,            *)
(* interlayer, layer2, substrate2 to numbers.                                *)

\* structure_key_to_exciton_key(key)
structure_key_to_exciton_key(key) ==
    CASE key = "layer1" -> Str("l1")
      [] key = "layer2" -> Str("l2")
      [] OTHER -> Raise("ValueError")

\* excitons_key_to_system_key(key)
excitons_key_to_system_key(key) ==
    CASE key = "l1" -> Str("layer1")
      [] key = "l2" -> Str("layer2")
      [] OTHER -> Raise("ValueError")

\* One pass of the inner loop of FreeExciton.__init__, for the electron key
\* number i and the hole key number j: the exception raised, or the entry
\* stored.  The tables are indexed with the exciton keys l1 and l2.
FreeExcitonEntry(electron_effective_mass, hole_effective_mass, i, j) ==
    LET l1 == structure_key_to_exciton_key(KeyAt(electron_effective_mass, i))
        l2 == structure_key_to_exciton_key(KeyAt(hole_effective_mass, j))
    IN  IF IsRaise(l1) THEN l1
        ELSE IF IsRaise(l2) THEN l2
        ELSE IF ~HasKey(electron_effective_mass, l1.value) THEN Raise("KeyError")
        ELSE IF ~HasKey(hole_effective_mass, l2.value) THEN Raise("KeyError")
        ELSE S(l1.value \o "_" \o l2.value,
               QInv(QAdd(QInv(Lookup(electron_effective_mass, l1.value).value),
                         QInv(Lookup(hole_effective_mass, l2.value).value))))

RECURSIVE FreeExcitonLoop(_, _, _, _)
\* The end of pass n of the loops: the exception of the pass ends them, the
\* entry of the pass is stored and the loops go on.
FreeExcitonStore(electron_effective_mass, hole_effective_mass, n, acc, entry) ==
    IF IsRaise(entry) THEN entry
    ELSE FreeExcitonLoop(electron_effective_mass, hole_effective_mass, n + 1,
                         DictSet(acc, entry.key, entry.value))

\* The two nested loops of FreeExciton.__init__ from pass n on, with the
\* entries stored so far: the first exception raised, or the final dict.
FreeExcitonLoop(electron_effective_mass, hole_effective_mass, n, acc) ==
    IF n > DictLen(electron_effective_mass) * DictLen(hole_effective_mass) THEN acc
    ELSE FreeExcitonStore(electron_effective_mass, hole_effective_mass, n, acc,
             FreeExcitonEntry(electron_effective_mass, hole_effective_mass,
                              ((n - 1) \div DictLen(hole_effective_mass)) + 1,
                              ((n - 1) % DictLen(hole_effective_mass)) + 1))

\* The object FreeExciton.__init__ leaves, given what its loops produced.
FreeExcitonObject(masses) ==
    IF IsRaise(masses) THEN masses
    ELSE [tag |-> "FreeExciton", exciton_effective_mass |-> masses]

\* FreeExciton(hamiltonian, electron_effective_mass=..., hole_effective_mass=...):
\* the exception raised, or the new term.
FreeExciton_init(electron_effective_mass, hole_effective_mass) ==
    IF KeySet(electron_effective_mass) # KeySet(hole_effective_mass)
    THEN Raise("ValueError")
    ELSE FreeExcitonObject(
             FreeExcitonLoop(electron_effective_mass, hole_effective_mass, 1, Dict(<<>>)))

\* FreeExciton.get_hamiltonian_term(**kwargs)
FreeExciton_get_hamiltonian_term(self, kwargs) ==
    LET exciton == Get(kwargs, "exciton")
    IN  IF exciton = None THEN Raise("ValueError")
        ELSE IF ~HasKey(self.exciton_effective_mass, exciton.value) THEN Raise("KeyError")
        ELSE KineticEnergies(grid_flat_grid.ret,
                             Lookup(self.exciton_effective_mass, exciton.value).value)

\* The pairs of effective-mass tables (electrons, holes) a caller passes:
\* the tables of the tests, tables for both layers (in either key order),
\* empty tables, and tables for different layers.
MassTables ==
    { <<Dict(<<S("layer1", QRat(1, 2))>>), Dict(<<S("layer1", QRat(3, 5))>>)>>,
      <<Dict(<<S("layer1", QRat(1, 2)), S("layer2", QInt(1))>>),
        Dict(<<S("layer2", QRat(1, 2)), S("layer1", QRat(3, 5))>>)>>,
      <<Dict(<<>>), Dict(<<>>)>>,
      <<Dict(<<S("layer1", QRat(1, 2))>>), Dict(<<S("layer2", QRat(3, 5))>>)>> }

\* The keyword arguments a caller passes to get_hamiltonian_term.
Kwargs ==
    { Dict(<<>>),
      Dict(<<S("exciton", Str("l1_l1"))>>),
      Dict(<<S("exciton", Str("l1_l2"))>>),
      Dict(<<S("exciton", Str("l2_l2"))>>),
      Dict(<<S("exciton", Str("l3_l1"))>>),
      Dict(<<S("layer", Str("l1_l1"))>>) }

FreeExcitonInit(electron_effective_mass, hole_effective_mass) ==
    /\ Constructed
    /\ call' = [op |-> "FreeExciton.__init__",
                electron_effective_mass |-> electron_effective_mass,
                hole_effective_mass |-> hole_effective_mass]
    /\ result' = Raised(FreeExciton_init(electron_effective_mass, hole_effective_mass))
    /\ term' = Bound(term, FreeExciton_init(electron_effective_mass, hole_effective_mass))
    /\ UNCHANGED <<spacing, boundaries, mesh, _flat_grid, n_projections, hamiltonian>>

FreeExcitonGetHamiltonianTerm(kwargs) ==
    /\ term.tag = "FreeExciton"
    /\ call' = [op |-> "FreeExciton.get_hamiltonian_term", kwargs |-> kwargs]
    /\ result' = FreeExciton_get_hamiltonian_term(term, kwargs)
    /\ _flat_grid' = grid_flat_grid.cache
    /\ UNCHANGED <<spacing, boundaries, mesh, n_projections, hamiltonian, term>>

----------------------------------------------------------------------------
(* Effective2DCoulombPotential                                              *)
(* (openqed/hamiltonians/terms/effective_2d_coulomb.py).  The dielectric    *)
(* functions are built from tanh and cosh of the kernel; the model keeps    *)
(* every entry of the returned potential as the expression                  *)
(* (q_c/(2 pi))**2 * 4 pi / (k * eps) of its three parts: the square of     *)
(* q_c, the kernel entry k after the diagonal is filled (the value itself   *)
(* off the diagonal, the square root of q_c**2/16 on it), and the           *)
(* dielectric function (which one, for which layers, at which kernel        *)
(* value).                                                                  *)

\* Effective2DCoulombPotential(hamiltonian, thicknesses=..., dielectric_constants=...)
Effective2DCoulombPotential_init(thicknesses, dielectric_constants) ==
    [tag |-> "Effective2DCoulombPotential",
     thicknesses |-> thicknesses, dielectric_constants |-> dielectric_constants]

\* 'substrate1' if layer == 'layer1' else 'substrate2': the slot of the
\* medium that surrounds the layer.
SubstrateOf(layer) == IF layer = "layer1" THEN "substrate1" ELSE "substrate2"

\* The first exception _get_dielectric_constants(ref_layer, coupled_layer)
\* raises, or None.
DielectricConstantsError(self, ref_layer, coupled_layer) ==
    LET eps == self.dielectric_constants
        substrate(layer) == SubstrateOf(layer)
    IN  IF ref_layer \notin {"layer1", "layer2"} \/ coupled_layer \notin {"layer1", "layer2"}
        THEN Raise("ValueError")
        ELSE IF Get(eps, substrate(ref_layer)) = None THEN Raise("ValueError")
        ELSE IF Get(eps, substrate(coupled_layer)) = None THEN Raise("ValueError")
        ELSE IF Get(eps, "interlayer") = None THEN Raise("ValueError")
        ELSE IF ~HasKey(eps, ref_layer) \/ ~HasKey(eps, coupled_layer) THEN Raise("KeyError")
        ELSE None

\* The first exception _get_thicknesses(ref_layer, coupled_layer) raises, or
\* None.
ThicknessesError(self, ref_layer, coupled_layer) ==
    IF Get(self.thicknesses, ref_layer) = None THEN Raise("ValueError")
    ELSE IF Get(self.thicknesses, coupled_layer) = None THEN Raise("ValueError")
    ELSE IF Get(self.thicknesses, "interlayer") = None THEN Raise("ValueError")
    ELSE None

\* _get_intralayer_dielectric_function / _get_interlayer_dielectric_function
\* on the kernel k_grid (a sequence of kernel values): the exception raised,
\* or the dielectric function at every kernel value.
DielectricFunction(self, kind, ref_layer, coupled_layer, k_grid) ==
    IF IsRaise(DielectricConstantsError(self, ref_layer, coupled_layer))
    THEN DielectricConstantsError(self, ref_layer, coupled_layer)
    ELSE IF IsRaise(ThicknessesError(self, ref_layer, coupled_layer))
    THEN ThicknessesError(self, ref_layer, coupled_layer)
    ELSE Tuple([n \in 1..Len(k_grid) |->
                  [kind |-> kind, ref_layer |-> ref_layer,
                   coupled_layer |-> coupled_layer,
                   eps_1 |-> SubstrateOf(ref_layer), eps_2 |-> SubstrateOf(coupled_layer),
                   k |-> k_grid[n]]])

\* Mutant: the kernel is built from the differences themselves, not from
\* their squares.
generate_coulomb_kernel_signed ==
    LET fg == grid_flat_grid.ret
        n == NRows(fg)
    IN  IF Len(fg.shape) # 2 THEN Raise("IndexError")
        ELSE IF fg.shape[2] < 2 THEN Raise("IndexError")
        ELSE NDArray(NewId({fg.id}), <<n, n>>,
                     [m \in 1..(n * n) |->
                        LET i == (m - 1) \div n
                            j == (m - 1) % n
                        IN  QAdd(QSub(At(fg, i, 0), At(fg, j, 0)),
                                 QSub(At(fg, i, 1), At(fg, j, 1)))])

\* generate_coulomb_kernel(): the exception raised, or the N x N array of
\* (kx_i - kx_j)**2 + (ky_i - ky_j)**2.
generate_coulomb_kernel ==
    LET fg == grid_flat_grid.ret
        n == NRows(fg)
        sq(a) == QMul(a, a)
    IN  IF Len(fg.shape) # 2 THEN Raise("IndexError")
        ELSE IF fg.shape[2] < 2 THEN Raise("IndexError")
        ELSE NDArray(NewId({fg.id}), <<n, n>>,
                     [m \in 1..(n * n) |->
                        LET i == (m - 1) \div n
                            j == (m - 1) % n
                        IN  QAdd(sq(QSub(At(fg, i, 0), At(fg, j, 0))),
                                 sq(QSub(At(fg, i, 1), At(fg, j, 1))))])

\* str.split("_") of the selectors a caller passes.
Split(text) ==
    CASE text = "l1_l1" -> <<"l1", "l1">>
      [] text = "l1_l2" -> <<"l1", "l2">>
      [] text = "l2_l1" -> <<"l2", "l1">>
      [] text = "l2_l2" -> <<"l2", "l2">>
      [] text = "l3_l1" -> <<"l3", "l1">>
      [] OTHER -> <<text>>

\* Mutant: the intralayer function is coupled to the reference layer itself.
IntralayerCoupledLayer_same(ref_layer) == ref_layer

\* 'layer1' if ref_layer == 'layer2' else 'layer2': the coupled layer of the
\* intralayer dielectric function.
IntralayerCoupledLayer(ref_layer) == IF ref_layer = "layer2" THEN "layer1" ELSE "layer2"

\* Effective2DCoulombPotential.get_hamiltonian_term(**kwargs)
Effective2DCoulombPotential_get_hamiltonian_term(self, kwargs) ==
    LET exciton == Get(kwargs, "exciton")
        k_grid == generate_coulomb_kernel
        parts == Split(exciton.value)
        ref_layer == excitons_key_to_system_key(parts[1])
        coupled_layer == excitons_key_to_system_key(parts[2])
        eps == IF ref_layer = coupled_layer
               THEN DielectricFunction(self, "intralayer", ref_layer.value,
                        IntralayerCoupledLayer(ref_layer.value), k_grid.data)
               ELSE DielectricFunction(self, "interlayer", ref_layer.value,
                        coupled_layer.value, k_grid.data)
        fg == grid_flat_grid.ret
        n == NRows(fg)
        q_c_squared == SquaredNorm([c \in 1..fg.shape[2] |-> QSub(At(fg, 1, c - 1), At(fg, 0, c - 1))])
    IN  IF exciton = None THEN Raise("ValueError")
        ELSE IF IsRaise(k_grid) THEN k_grid
        ELSE IF IsRaise(ref_layer) THEN ref_layer
        ELSE IF Len(parts) < 2 THEN Raise("IndexError")
        ELSE IF IsRaise(coupled_layer) THEN coupled_layer
        ELSE IF IsRaise(eps) THEN eps
        ELSE IF n < 2 THEN Raise("IndexError")
        ELSE NDArray(NewId({fg.id}), <<n, n>>,
                     [m \in 1..(n * n) |->
                        [q_c_squared |-> q_c_squared,
                         k |-> IF (m - 1) \div n = (m - 1) % n
                               THEN [is |-> "sqrt", value |-> QDiv(q_c_squared, QInt(16))]
                               ELSE [is |-> "value", value |-> k_grid.data[m]],
                         eps |-> eps.items[m]]])

\* The thicknesses and dielectric constants a caller passes: those of a
\* whole bilayer, and tables that lack a slot.
Thicknesses ==
    Dict(<<S("layer1", QInt(1)), S("interlayer", QRat(1, 2)), S("layer2", QInt(1))>>)
ThicknessesNoInterlayer ==
    Dict(<<S("layer1", QInt(1)), S("layer2", QInt(1))>>)
DielectricConstants ==
    Dict(<<S("substrate1", QInt(1)), S("layer1", QInt(4)), S("interlayer", QInt(1)),
           S("layer2", QInt(2)), S("substrate2", QInt(1))>>)
DielectricConstantsNoSubstrate2 ==
    Dict(<<S("substrate1", QInt(1)), S("layer1", QInt(4)), S("interlayer", QInt(1)),
           S("layer2", QInt(2))>>)
DielectricConstantsNoLayer2 ==
    Dict(<<S("substrate1", QInt(1)), S("layer1", QInt(4)), S("interlayer", QInt(1)),
           S("substrate2", QInt(1))>>)
BilayerParameters ==
    { <<Thicknesses, DielectricConstants>>,
      <<ThicknessesNoInterlayer, DielectricConstants>>,
      <<Thicknesses, DielectricConstantsNoSubstrate2>>,
      <<Thicknesses, DielectricConstantsNoLayer2>> }

Effective2DCoulombPotentialInit(thicknesses, dielectric_constants) ==
    /\ Constructed
    /\ call' = [op |-> "Effective2DCoulombPotential.__init__",
                thicknesses |-> thicknesses, dielectric_constants |-> dielectric_constants]
    /\ result' = None
    /\ term' = Effective2DCoulombPotential_init(thicknesses, dielectric_constants)
    /\ UNCHANGED <<spacing, boundaries, mesh, _flat_grid, n_projections, hamiltonian>>

Effective2DCoulombPotentialGetHamiltonianTerm(kwargs) ==
    /\ term.tag = "Effective2DCoulombPotential"
    /\ call' = [op |-> "Effective2DCoulombPotential.get_hamiltonian_term", kwargs |-> kwargs]
    /\ result' = Effective2DCoulombPotential_get_hamiltonian_term(term, kwargs)
    /\ _flat_grid' = grid_flat_grid.cache
    /\ UNCHANGED <<spacing, boundaries, mesh, n_projections, hamiltonian, term>>

----------------------------------------------------------------------------
(* MottWannier (openqed/hamiltonians/mott_wannier.py)                       *)

\* One pass of the loop of MottWannier.__init__: the exception raised, the
\* instance built for the term, or None for a term the loop has no branch
\* for.
MottWannierInstance(args, term_name) ==
    CASE term_name = "free_exciton" ->
            IF args.electron_effective_mass = None \/ args.hole_effective_mass = None
            THEN Raise("ValueError")
            ELSE FreeExciton_init(args.electron_effective_mass, args.hole_effective_mass)
      [] term_name = "effective_2d_coulomb" ->
            IF args.thicknesses = None \/ args.dielectric_constants = None
            THEN Raise("ValueError")
            ELSE Effective2DCoulombPotential_init(args.thicknesses, args.dielectric_constants)
      [] OTHER -> None

RECURSIVE MottWannierTerms(_, _, _)
\* The end of pass n: the exception ends the loop, the instance is stored
\* under its term.
MottWannierStore(args, n, term_to_instance, instance) ==
    IF IsRaise(instance) THEN instance
    ELSE MottWannierTerms(args, n + 1,
             IF instance = None THEN term_to_instance
             ELSE DictSet(term_to_instance, args.terms[n], instance))

\* The loop of MottWannier.__init__ over terms from position n on, with the
\* instances stored so far: the first exception raised, or term_to_instance.
MottWannierTerms(args, n, term_to_instance) ==
    IF n > Len(args.terms) THEN term_to_instance
    ELSE MottWannierStore(args, n, term_to_instance, MottWannierInstance(args, args.terms[n]))

\* The object MottWannier.__init__ leaves, given what its loop produced.
MottWannierObject(args, term_to_instance) ==
    IF IsRaise(term_to_instance) THEN term_to_instance
    ELSE [tag |-> "MottWannier", name |-> "Mott-Wannier", terms |-> args.terms,
          term_to_instance |-> term_to_instance]

\* MottWannier(terms, grid=..., electron_effective_mass=..., ...): the
\* exception raised, or the new Hamiltonian.
MottWannier_init(args) == MottWannierObject(args, MottWannierTerms(args, 1, Dict(<<>>)))

\* np.zeros((n, n))
Zeros(n) == NDArray(NewId({}), <<n, n>>, [m \in 1..(n * n) |-> QZero])

\* np.diag(v) of a 1-D array
Diag(v) ==
    LET n == v.shape[1]
    IN  NDArray(v.id, <<n, n>>,
                [m \in 1..(n * n) |->
                    IF (m - 1) \div n = (m - 1) % n THEN v.data[((m - 1) \div n) + 1] ELSE QZero])

\* a + b of two entries: the sum of two numbers, or the expression a + b.
AddEntries(a, b) ==
    IF "p" \in DOMAIN a /\ "p" \in DOMAIN b THEN QAdd(a, b) ELSE [sum |-> <<a, b>>]

\* hamiltonian += x for 2-D arrays: x must have the shape of hamiltonian or
\* be broadcast from a single entry.
AddInPlace(h, x) ==
    IF x.shape = h.shape
    THEN [h EXCEPT !.data = [m \in 1..Len(h.data) |-> AddEntries(h.data[m], x.data[m])]]
    ELSE IF x.shape = <<1, 1>>
    THEN [h EXCEPT !.data = [m \in 1..Len(h.data) |-> AddEntries(h.data[m], x.data[1])]]
    ELSE Raise("ValueError")

\* np.size(flat_grid, 1)
MottWannier_mesh_size(fg) ==
    IF Len(fg.shape) < 2 THEN Raise("IndexError") ELSE [tag |-> "int", value |-> fg.shape[2]]

\* np.diag(v) of what a term returned: an exception passes through.
DiagOf(v) == IF IsRaise(v) THEN v ELSE Diag(v)

\* One pass of the loop of MottWannier.get_hamiltonian: the exception
\* raised, the 2-D array to add, or None for a term the loop has no branch
\* for.  The selector is passed to the term as the keyword `layer`.
MottWannierContribution(self, layer, term_name) ==
    CASE term_name = "free_exciton" ->
            DiagOf(FreeExciton_get_hamiltonian_term(
                       Lookup(self.term_to_instance, term_name).value,
                       Dict(<<S("layer", Str(layer))>>)))
      [] term_name = "effective_2d_coulomb" ->
            Effective2DCoulombPotential_get_hamiltonian_term(
                Lookup(self.term_to_instance, term_name).value,
                Dict(<<S("layer", Str(layer))>>))
      [] OTHER -> None

RECURSIVE MottWannierSum(_, _, _, _)
\* The loop goes on with the matrix after `+=`, unless `+=` raised.
MottWannierAdded(self, layer, n, h) ==
    IF IsRaise(h) THEN h ELSE MottWannierSum(self, layer, n + 1, h)

\* The end of pass n: the exception ends the loop, the contribution is
\* added in place.
MottWannierAdd(self, layer, n, h, contribution) ==
    IF contribution = None THEN MottWannierSum(self, layer, n + 1, h)
    ELSE IF IsRaise(contribution) THEN contribution
    ELSE MottWannierAdded(self, layer, n, AddInPlace(h, contribution))

\* The loop of MottWannier.get_hamiltonian over self.terms from position n
\* on: the first exception raised, or the matrix.
MottWannierSum(self, layer, n, h) ==
    IF n > Len(self.terms) THEN h
    ELSE MottWannierAdd(self, layer, n, h, MottWannierContribution(self, layer, self.terms[n]))

\* The matrix of MottWannier.get_hamiltonian, given mesh_size.
MottWannierMatrix(self, layer, mesh_size) ==
    IF IsRaise(mesh_size) THEN mesh_size
    ELSE MottWannierSum(self, layer, 1, Zeros(mesh_size.value))

\* MottWannier.get_hamiltonian(layer)
MottWannier_get_hamiltonian(self, layer) ==
    MottWannierMatrix(self, layer, MottWannier_mesh_size(grid_flat_grid.ret))

\* The term lists a caller requests from MottWannier.
TermLists ==
    { <<>>, <<"free_exciton">>, <<"effective_2d_coulomb">>,
      <<"free_exciton", "effective_2d_coulomb">>,
      <<"effective_2d_coulomb", "free_exciton">>,
      <<"kinetic_term">> }

\* The physical parameters a caller passes to an assembly: none; the tables
\* of the tests for a whole bilayer; empty mass tables with thicknesses
\* that lack the interlayer; one table of each pair only.
Parameters ==
    { [electron_effective_mass |-> None, hole_effective_mass |-> None,
       thicknesses |-> None, dielectric_constants |-> None],
      [electron_effective_mass |-> Dict(<<S("layer1", QRat(1, 2))>>),
       hole_effective_mass |-> Dict(<<S("layer1", QRat(3, 5))>>),
       thicknesses |-> Thicknesses, dielectric_constants |-> DielectricConstants],
      [electron_effective_mass |-> Dict(<<>>), hole_effective_mass |-> Dict(<<>>),
       thicknesses |-> ThicknessesNoInterlayer, dielectric_constants |-> DielectricConstants],
      [electron_effective_mass |-> Dict(<<S("layer1", QRat(1, 2))>>),
       hole_effective_mass |-> None,
       thicknesses |-> Thicknesses, dielectric_constants |-> None] }

\* The exciton selectors a caller passes.
Excitons == {"l1_l1", "l2_l1", "l3_l1"}

MottWannierInit(terms, parameters) ==
    LET args == [terms |-> terms] @@ parameters
    IN  /\ Constructed
        /\ call' = [op |-> "MottWannier.__init__", args |-> args]
        /\ result' = Raised(MottWannier_init(args))
        /\ hamiltonian' = Bound(hamiltonian, MottWannier_init(args))
        /\ UNCHANGED <<spacing, boundaries, mesh, _flat_grid, n_projections, term>>

MottWannierGetHamiltonian(layer) ==
    /\ hamiltonian.tag = "MottWannier"
    /\ call' = [op |-> "MottWannier.get_hamiltonian", layer |-> layer]
    /\ result' = MottWannier_get_hamiltonian(hamiltonian, layer)
    /\ _flat_grid' = grid_flat_grid.cache
    /\ UNCHANGED <<spacing, boundaries, mesh, n_projections, hamiltonian, term>>

----------------------------------------------------------------------------
(* MottWannierHamiltonian (openqed/hamiltonians/mott_wannier_hamiltonian.py) *)

\* typing.get_args(BilayerExcitons): BilayerExcitons is a TypedDict class,
\* not a parameterised type, and has no type arguments.
BilayerExcitonsArgs == {}

\* The exciton setter: the exception raised, or None.
MottWannierHamiltonian_exciton_setter(exciton) ==
    IF exciton \notin BilayerExcitonsArgs THEN Raise("ValueError") ELSE None

RECURSIVE EffectiveMassLoop(_, _, _, _)
\* The two nested loops of _get_effective_mass from pass n on.
EffectiveMassLoop(electron_effective_mass, hole_effective_mass, n, acc) ==
    LET nh == DictLen(hole_effective_mass)
        elec_key == KeyAt(electron_effective_mass, ((n - 1) \div nh) + 1)
        hole_key == KeyAt(hole_effective_mass, ((n - 1) % nh) + 1)
        l1 == structure_key_to_exciton_key(elec_key)
        l2 == structure_key_to_exciton_key(hole_key)
    IN  IF n > DictLen(electron_effective_mass) * nh THEN acc
        ELSE IF IsRaise(l1) THEN l1
        ELSE IF IsRaise(l2) THEN l2
        ELSE EffectiveMassLoop(electron_effective_mass, hole_effective_mass, n + 1,
                 DictSet(acc, l1.value \o "_" \o l2.value,
                         QInv(QAdd(QInv(Lookup(electron_effective_mass, elec_key).value),
                                   QInv(Lookup(hole_effective_mass, hole_key).value)))))

\* MottWannierHamiltonian._get_effective_mass(electron_effective_mass, hole_effective_mass)
MottWannierHamiltonian_get_effective_mass(electron_effective_mass, hole_effective_mass) ==
    IF electron_effective_mass = None \/ hole_effective_mass = None THEN Raise("ValueError")
    ELSE IF KeySet(electron_effective_mass) # KeySet(hole_effective_mass) THEN Raise("ValueError")
    ELSE EffectiveMassLoop(electron_effective_mass, hole_effective_mass, 1, Dict(<<>>))

\* One pass of the loop of MottWannierHamiltonian.__init__: the exception
\* raised, the instance built, or None for a term the loop has no branch
\* for.  The mass is effective_masses.get(exciton, 0);
\* Effective2DCoulombPotential.__init__ has no parameter `exciton`.
MottWannierHamiltonianInstance(args, effective_masses, term_name) ==
    CASE term_name = "kinetic_term" ->
            KineticTerm_init(IF HasKey(effective_masses, args.exciton)
                             THEN Lookup(effective_masses, args.exciton).value ELSE QZero)
      [] term_name = "effective_2d_coulomb" ->
            IF args.thicknesses = None \/ args.dielectric_constants = None
            THEN Raise("ValueError")
            ELSE Raise("TypeError")
      [] OTHER -> None

RECURSIVE MottWannierHamiltonianTerms(_, _, _, _)
\* The end of pass n: the exception ends the loop, the instance is stored
\* under its term.
MottWannierHamiltonianStore(args, effective_masses, n, term_to_instance, instance) ==
    IF IsRaise(instance) THEN instance
    ELSE MottWannierHamiltonianTerms(args, effective_masses, n + 1,
             IF instance = None THEN term_to_instance
             ELSE DictSet(term_to_instance, args.terms[n], instance))

\* The loop of MottWannierHamiltonian.__init__ over terms from position n on.
MottWannierHamiltonianTerms(args, effective_masses, n, term_to_instance) ==
    IF n > Len(args.terms) THEN term_to_instance
    ELSE MottWannierHamiltonianStore(args, effective_masses, n, term_to_instance,
             MottWannierHamiltonianInstance(args, effective_masses, args.terms[n]))

\* The object MottWannierHamiltonian.__init__ leaves, given what its loop
\* produced.
MottWannierHamiltonianObject(args, effective_masses, term_to_instance) ==
    IF IsRaise(term_to_instance) THEN term_to_instance
    ELSE [tag |-> "MottWannierHamiltonian", name |-> "Mott-Wannier", terms |-> args.terms,
          _exciton |-> args.exciton, effective_masses |-> effective_masses,
          term_to_instance |-> term_to_instance]

\* MottWannierHamiltonian.__init__ after `self.exciton = exciton`.
MottWannierHamiltonianBuild(args, effective_masses) ==
    IF IsRaise(effective_masses) THEN effective_masses
    ELSE MottWannierHamiltonianObject(args, effective_masses,
             MottWannierHamiltonianTerms(args, effective_masses, 1, Dict(<<>>)))

\* MottWannierHamiltonian(terms, exciton, grid=..., ...): the exception
\* raised, or the new Hamiltonian.
MottWannierHamiltonian_init(args) ==
    IF IsRaise(MottWannierHamiltonian_exciton_setter(args.exciton))
    THEN MottWannierHamiltonian_exciton_setter(args.exciton)
    ELSE MottWannierHamiltonianBuild(args,
             MottWannierHamiltonian_get_effective_mass(args.electron_effective_mass,
                                                       args.hole_effective_mass))

\* The term lists a caller requests from MottWannierHamiltonian.
MatterTermLists == { <<"kinetic_term">>, <<"kinetic_term", "effective_2d_coulomb">> }

MottWannierHamiltonianInit(terms, exciton, parameters) ==
    LET args == [terms |-> terms, exciton |-> exciton] @@ parameters
    IN  /\ Constructed
        /\ call' = [op |-> "MottWannierHamiltonian.__init__", args |-> args]
        /\ result' = Raised(MottWannierHamiltonian_init(args))
        /\ hamiltonian' = Bound(hamiltonian, MottWannierHamiltonian_init(args))
        /\ UNCHANGED <<spacing, boundaries, mesh, _flat_grid, n_projections, term>>

----------------------------------------------------------------------------
(* diagonalize_hamiltonian (openqed/hamiltonians/mott_wannier.py; the same  *)
(* body in mott_wannier_hamiltonian.py), on a purely diagonal matrix.  The  *)
(* eigenvalues of such a matrix are its diagonal entries.  The entries of   *)
(* the eigenvectors are not modelled, only the shape of their array.        *)

\* The main diagonal of a square matrix.
Diagonal(a) == [i \in 1..NRows(a) |-> At(a, i - 1, i - 1)]

IsDiagonal(a) ==
    /\ IsArray(a) /\ Len(a.shape) = 2 /\ a.shape[1] = a.shape[2]
    /\ \A i, j \in 0..(NRows(a) - 1) : i # j => At(a, i, j) = QZero

\* The order of `which`: "SM" orders by magnitude, "SA" and the full
\* decomposition by value.
Before(a, b, which) ==
    IF which = "SM" THEN QLess(QAbs(a), QAbs(b)) ELSE QLess(a, b)

RECURSIVE Insert(_, _, _)
\* x inserted into the ordered sequence seq, after the entries that are not
\* after it.
Insert(x, seq, which) ==
    IF seq = <<>> THEN <<x>>
    ELSE IF Before(x, Head(seq), which) THEN <<x>> \o seq
    ELSE <<Head(seq)>> \o Insert(x, Tail(seq), which)

RECURSIVE Sorted(_, _)
\* seq in the order of `which`
Sorted(seq, which) ==
    IF seq = <<>> THEN <<>> ELSE Insert(Head(seq), Sorted(Tail(seq), which), which)

\* The pair (eigenval, eigenvec) for the eigenvalues w of an n x n matrix.
Eigenpairs(w, n) ==
    Tuple(<<NDArray(NewId({}), <<Len(w)>>, w),
            [tag |-> "eigenvectors", shape |-> <<n, Len(w)>>]>>)

\* np.linalg.eigh(hamiltonian) of a diagonal matrix: all eigenvalues in
\* ascending order.
eigh(h_matrix) ==
    Eigenpairs(Sorted(Diagonal(h_matrix), "SA"), NRows(h_matrix))

\* ssl.eigsh(hamiltonian, k=k, which=which, ...) of a diagonal matrix, for
\* 0 < k < N: the k eigenvalues that come first in the order of `which`, in
\* ascending order.
eigsh(h_matrix, k, which) ==
    Eigenpairs(Sorted(SubSeq(Sorted(Diagonal(h_matrix), which), 1, k), "SA"),
               NRows(h_matrix))

\* Mutant: num_eigenvalues defaults to 1.
diagonalize_hamiltonian_default_one(h_matrix, kwargs) ==
    eigsh(h_matrix,
          IF Get(kwargs, "num_eigenvalues") = None THEN 1
          ELSE Get(kwargs, "num_eigenvalues").value, "SM")

\* Mutant: the partial solver is asked for the algebraically smallest
\* eigenvalues.
diagonalize_hamiltonian_smallest_algebraic(h_matrix, kwargs) ==
    IF Get(kwargs, "num_eigenvalues") = None THEN eigh(h_matrix)
    ELSE eigsh(h_matrix, Get(kwargs, "num_eigenvalues").value, "SA")

\* diagonalize_hamiltonian(hamiltonian, **kwargs), h_matrix being its
\* argument `hamiltonian`
diagonalize_hamiltonian(h_matrix, kwargs) ==
    IF Get(kwargs, "num_eigenvalues") = None THEN eigh(h_matrix)
    ELSE eigsh(h_matrix, Get(kwargs, "num_eigenvalues").value, "SM")

\* The keyword arguments a caller passes to diagonalize_hamiltonian: none,
\* or num_eigenvalues.
DiagonalizeKwargs ==
    {Dict(<<>>)} \cup {Dict(<<S("num_eigenvalues", IntResult(k))>>) : k \in 1..MaxEigenvalues}

\* h.diagonalize_hamiltonian(np.diag(v), **kwargs) for the vector v a term
\* has just returned, as the tests call it; a caller asks for fewer
\* eigenvalues than the matrix has.  The call records the matrix as it is
\* after the call.
DiagonalizeHamiltonian(kwargs) ==
    /\ hamiltonian.tag = "MottWannier"
    /\ IsArray(result) /\ Len(result.shape) = 1
    /\ Get(kwargs, "num_eigenvalues") # None
          => Get(kwargs, "num_eigenvalues").value < result.shape[1]
    /\ call' = [op |-> "diagonalize_hamiltonian", hamiltonian |-> Diag(result),
                kwargs |-> kwargs]
    /\ result' = diagonalize_hamiltonian(Diag(result), kwargs)
    /\ UNCHANGED <<spacing, boundaries, mesh, _flat_grid, n_projections, hamiltonian, term>>

----------------------------------------------------------------------------
(* The calls a user of the Hamiltonians makes on a grid                     *)

\* The grids the Hamiltonians are built on: one axis, two axes with equal
\* and with different spacings, four axes.
HamiltonianConfigs ==
    { cfg \in Configs :
        /\ InitOutcome(cfg) = None
        /\ \/ cfg.boundaries = Dict(<<B("x", 0, 3)>>)
           \/ DictLen(cfg.spacing) = 4
           \/ (DictLen(cfg.spacing) = 2 /\ cfg.boundaries.items[2].max > 1) }

\* The calls on the grid under the terms and the assemblies: its cache may
\* hold the flat grid or a projection of it.
NextGrid ==
    \/ \E cfg \in HamiltonianConfigs : Construct(cfg)
    \/ FlatGrid(TRUE)
    \/ DeallocateFlatGrid
    \/ \E k \in KSpaceLatticeParameters \ {None} : ProjectToUnitCell(None, k, TRUE)

\* A term built on its own on the grid.
NextTerms ==
    \/ NextGrid
    \/ \E mass \in Masses : KineticTermInit(mass)
    \/ \E mass \in Masses : KineticTermSetMass(mass)
    \/ KineticTermGetHamiltonianTerm
    \/ \E masses \in MassTables : FreeExcitonInit(masses[1], masses[2])
    \/ \E kwargs \in Kwargs : FreeExcitonGetHamiltonianTerm(kwargs)
    \/ \E parameters \in BilayerParameters :
          Effective2DCoulombPotentialInit(parameters[1], parameters[2])
    \/ \E kwargs \in Kwargs : Effective2DCoulombPotentialGetHamiltonianTerm(kwargs)

SpecTerms == Init /\ [][NextTerms]_vars

\* An assembly built on the grid.
NextHamiltonian ==
    \/ NextGrid
    \/ \E terms \in TermLists, parameters \in Parameters : MottWannierInit(terms, parameters)
    \/ \E layer \in Excitons : MottWannierGetHamiltonian(layer)
    \/ \E terms \in MatterTermLists, exciton \in Excitons, parameters \in Parameters :
          MottWannierHamiltonianInit(terms, exciton, parameters)

SpecHamiltonian == Init /\ [][NextHamiltonian]_vars

\* The diagonal of a kinetic term, diagonalized by an assembly on its grid.
NextDiagonalize ==
    \/ NextGrid
    \/ \E parameters \in Parameters : MottWannierInit(<<>>, parameters)
    \/ \E mass \in Masses : KineticTermInit(mass)
    \/ KineticTermGetHamiltonianTerm
    \/ \E kwargs \in DiagonalizeKwargs : DiagonalizeHamiltonian(kwargs)

SpecDiagonalize == Init /\ [][NextDiagonalize]_vars

\* The parameters of a whole bilayer among those a caller passes.
WholeBilayerParameters ==
    {parameters \in Parameters :
        parameters.thicknesses = Thicknesses /\ parameters.dielectric_constants = DielectricConstants}

\* The Coulomb term on its own and an assembly, on one grid.
NextSymmetric ==
    \/ NextGrid
    \/ \E parameters \in BilayerParameters :
          Effective2DCoulombPotentialInit(parameters[1], parameters[2])
    \/ \E kwargs \in Kwargs : Effective2DCoulombPotentialGetHamiltonianTerm(kwargs)
    \/ \E terms \in {<<>>, <<"effective_2d_coulomb">>}, parameters \in WholeBilayerParameters :
          MottWannierInit(terms, parameters)
    \/ MottWannierGetHamiltonian("l1_l1")

SpecSymmetric == Init /\ [][NextSymmetric]_vars

\* A kinetic term, a Coulomb term and an assembly on one grid that is
\* cached, projected and deallocated between their evaluations.
NextShared ==
    \/ NextGrid
    \/ \E mass \in Masses : KineticTermInit(mass)
    \/ KineticTermGetHamiltonianTerm
    \/ Effective2DCoulombPotentialInit(Thicknesses, DielectricConstants)
    \/ Effective2DCoulombPotentialGetHamiltonianTerm(Dict(<<S("exciton", Str("l1_l2"))>>))
    \/ \E parameters \in WholeBilayerParameters : MottWannierInit(<<>>, parameters)
    \/ MottWannierGetHamiltonian("l1_l1")

SpecShared == Init /\ [][NextShared]_vars

----------------------------------------------------------------------------
(* Properties.  Every step of Next sets call' to the call it makes, so      *)
(* call'.op names the operation of a step and call.op the one before it.   *)

IsCall(c, op) == c.op = op

\* The cache holds nothing, or the enumeration of the mesh: no projection
\* is in effect.
Unprojected ==
    \/ _flat_grid = None
    \/ (_flat_grid.shape = ComputeFlatGrid.shape /\ _flat_grid.data = ComputeFlatGrid.data)

\* C1: flat_grid(cache_result=True) on an empty cache stores the array it
\* returns; while an array is cached every flat_grid call, whatever its
\* cache_result, returns that very array (the same object) and leaves it in
\* the cache; and the cached array is replaced or dropped only by
\* deallocate_flat_grid() or project_to_unit_cell(cache_result=True).
C1_CachedFlatGridIsReturned ==
    [][ /\ (IsCall(call', "flat_grid") /\ call'.cache_result /\ _flat_grid = None)
            => (IsArray(_flat_grid') /\ result' = _flat_grid')
        /\ (IsCall(call', "flat_grid") /\ _flat_grid # None)
            => (result' = _flat_grid /\ _flat_grid' = _flat_grid)
        /\ (_flat_grid # None /\ _flat_grid' # _flat_grid)
            => \/ IsCall(call', "deallocate_flat_grid")
               \/ (IsCall(call', "project_to_unit_cell") /\ call'.cache_result)
      ]_vars

\* A flat_grid() call without caching has returned the array that an earlier
\* flat_grid(cache_result=True) stored.
C1_Witness ==
    /\ IsCall(call, "flat_grid") /\ ~call.cache_result
    /\ IsArray(_flat_grid) /\ result = _flat_grid
    /\ n_projections = 0 /\ NRows(_flat_grid) > 1

\* C2: flat_grid(cache_result=False) leaves the cache as it was: empty if
\* it was empty, the same array if it held one.
C2_UncachedFlatGridKeepsCache ==
    [][ (IsCall(call', "flat_grid") /\ ~call'.cache_result) => _flat_grid' = _flat_grid ]_vars

\* flat_grid(cache_result=False) has computed and returned a grid while the
\* cache stayed empty.
C2_Witness ==
    /\ IsCall(call, "flat_grid") /\ ~call.cache_result
    /\ _flat_grid = None
    /\ IsArray(result) /\ NRows(result) > 1

\* C3: deallocate_flat_grid() leaves the cache empty whatever it held, and
\* the flat_grid() call that follows it returns the enumeration of the mesh
\* built at construction (the unprojected points) in a new array.
C3_DeallocateEmptiesCache ==
    [][ /\ IsCall(call', "deallocate_flat_grid") => _flat_grid' = None
        /\ (IsCall(call, "deallocate_flat_grid") /\ IsCall(call', "flat_grid"))
            => /\ IsArray(result')
               /\ result'.shape = ComputeFlatGrid.shape
               /\ result'.data = ComputeFlatGrid.data
      ]_vars

\* A projection was cached, the cache was deallocated since (it is empty),
\* and flat_grid() has returned the unprojected points again.
C3_Witness ==
    /\ IsCall(call, "flat_grid")
    /\ n_projections > 0 /\ _flat_grid = None
    /\ IsArray(result) /\ NRows(result) > 1
    /\ result.data = ComputeFlatGrid.data

\* C4: on a grid of 1, 2 or 3 axes with no projection in effect, cached or
\* not, get_point_index of row i of the flat grid returns i.
C4_PointRoundTrip ==
    (IsCall(call, "get_point_index") /\ dimensions \in {1, 2, 3} /\ Unprojected)
        => \A i \in 0..(NRows(ComputeFlatGrid) - 1) :
              call.point = Row(ComputeFlatGrid, i) => result = IntResult(i)

\* get_point_index has returned the index of the last row of a cached
\* three-axis grid.
C4_Witness ==
    /\ IsCall(call, "get_point_index") /\ dimensions = 3
    /\ IsArray(_flat_grid) /\ Unprojected
    /\ call.point = Row(ComputeFlatGrid, NRows(ComputeFlatGrid) - 1)
    /\ result = IntResult(11)

----------------------------------------------------------------------------
(* The enumeration the grid's configuration calls for, stated from the     *)
(* boundaries and the spacing alone.                                       *)

\* ceil(n / m) for m > 0
Ceil(n, m) == -((-n) \div m)

AxisMin(k) == Lookup(boundaries, KeyAt(spacing, k)).min
AxisMax(k) == Lookup(boundaries, KeyAt(spacing, k)).max
AxisSpacing(k) == Lookup(spacing, KeyAt(spacing, k)).value
\* ceil((max - min) / spacing)
AxisCount(k) == Ceil(AxisMax(k) - AxisMin(k), AxisSpacing(k))

RECURSIVE CountFrom(_)
\* The product of the point counts of the axes k, k + 1, ...
CountFrom(k) == IF k > dimensions THEN 1 ELSE AxisCount(k) * CountFrom(k + 1)

\* Coordinate k of point i of the Cartesian product in row-major order, the
\* last axis varying fastest.
ProductCoordinate(i, k) ==
    AxisMin(k) + ((i \div CountFrom(k + 1)) % AxisCount(k)) * AxisSpacing(k)

\* C5: flat_grid() on the empty cache of a grid (of at least one axis)
\* returns CountFrom(1) rows of `dimensions` columns, row i being point i of
\* the Cartesian product of the half-open axis ranges in row-major order;
\* no coordinate equals its axis' maximum.
C5_FlatGridEnumeration ==
    [][ (IsCall(call', "flat_grid") /\ _flat_grid = None /\ dimensions >= 1)
        => /\ result'.shape = <<CountFrom(1), dimensions>>
           /\ \A i \in 0..(CountFrom(1) - 1), k \in 1..dimensions :
                /\ At(result', i, k - 1) = QInt(ProductCoordinate(i, k))
                /\ At(result', i, k - 1) # QInt(AxisMax(k))
      ]_vars

\* The enumeration of C5 on the grids of 1, 2 or 3 axes, where it holds.
C5_EnumerationOneToThreeAxes ==
    [][ (IsCall(call', "flat_grid") /\ _flat_grid = None /\ dimensions \in {1, 2, 3})
        => /\ result'.shape = <<CountFrom(1), dimensions>>
           /\ \A i \in 0..(CountFrom(1) - 1), k \in 1..dimensions :
                /\ At(result', i, k - 1) = QInt(ProductCoordinate(i, k))
                /\ At(result', i, k - 1) # QInt(AxisMax(k))
      ]_vars

----------------------------------------------------------------------------

\* The array flat_grid() returns in the current state.
CurrentFlatGrid == flat_grid(FALSE).ret
CurrentRowCount == IF Len(CurrentFlatGrid.shape) = 2 THEN NRows(CurrentFlatGrid) ELSE 0

\* 2 * |row[k] - point[k]| < spacing of axis k, on every axis.
WithinHalfSpacing(row, point) ==
    \A k \in 1..dimensions :
        QLess(QMul(QInt(2), QAbs(QSub(row[k], point[k]))), QInt(AxisSpacing(k)))

NearRows(point) ==
    { r \in 0..(CurrentRowCount - 1) : WithinHalfSpacing(Row(CurrentFlatGrid, r), point) }

\* C6: get_point_index raises whenever no row or more than one row of the
\* current flat grid lies within half a spacing of the point on every axis,
\* and an index it returns is that of a row within half a spacing.
C6_PointIndexUniqueMatch ==
    IsCall(call, "get_point_index")
        => /\ (Len(call.point) = dimensions /\ Cardinality(NearRows(call.point)) # 1)
                => IsRaise(result)
           /\ result.tag = "int"
                => (Len(call.point) = dimensions /\ result.value \in NearRows(call.point))

\* get_point_index has raised ValueError for a point of the right
\* dimensionality that several rows of a projected grid are close to.
C6_Witness ==
    /\ IsCall(call, "get_point_index")
    /\ Len(call.point) = dimensions
    /\ Cardinality(NearRows(call.point)) > 1
    /\ result = Raise("ValueError")

\* C7: get_point_index raises ValueError for a point with fewer or more
\* coordinates than the grid has axes, and leaves the cache as it was.
C7_WrongDimensionalityRaises ==
    [][ (IsCall(call', "get_point_index") /\ Len(call'.point) # dimensions)
        => (result' = Raise("ValueError") /\ _flat_grid' = _flat_grid) ]_vars

\* get_point_index has raised ValueError for a point with one coordinate too
\* many, on a grid whose flat grid is cached.
C7_Witness ==
    /\ IsCall(call, "get_point_index")
    /\ Len(call.point) = dimensions + 1
    /\ IsArray(_flat_grid)
    /\ result = Raise("ValueError")

\* C8: after project_to_unit_cell(cache_result=True) has stored the
\* projected grid, get_point_index of its row i (the image of the point that
\* had index i before the call) returns i.
C8_IndexPreservedByProjection ==
    [][ ( /\ IsCall(call, "project_to_unit_cell") /\ call.cache_result /\ IsArray(result)
          /\ IsCall(call', "get_point_index") )
        => \A i \in 0..(CurrentRowCount - 1) :
              call'.point = Row(CurrentFlatGrid, i) => result' = IntResult(i)
      ]_vars

\* The part of C8 that holds: the projection stores, row by row, the image
\* of the flat grid it found.
C8_RowsAreImages ==
    [][ (IsCall(call', "project_to_unit_cell") /\ call'.cache_result /\ IsArray(result'))
        => /\ _flat_grid' = result'
           /\ result'.shape = CurrentFlatGrid.shape
           /\ \A i \in 0..(CurrentRowCount - 1) :
                LET m == get_k_space_hexagonal_cell(call'.real_space_lattice_parameter,
                                                    call'.k_space_lattice_parameter).m
                    x == At(CurrentFlatGrid, i, 0)
                    y == At(CurrentFlatGrid, i, 1)
                IN  /\ At(result', i, 0) = QAdd(QMul(x, m[1][1]), QMul(y, m[2][1]))
                    /\ At(result', i, 1) = QAdd(QMul(x, m[1][2]), QMul(y, m[2][2]))
      ]_vars

\* What flat_grid() returns (shape and data) when the cache is `cache`.
FlatGridWith(cache) == IF cache # None THEN cache ELSE ComputeFlatGrid

\* C9: project_to_unit_cell(cache_result=False) leaves the cache as it was,
\* and get_point_index answers every grid point after the call as it did
\* before it.
C9_UncachedProjectionKeepsCache ==
    [][ (IsCall(call', "project_to_unit_cell") /\ ~call'.cache_result)
        => /\ _flat_grid' = _flat_grid
           /\ mesh' = mesh /\ spacing' = spacing
           /\ \A pt \in Rows(FlatGridWith(_flat_grid)) :
                PointIndex(FlatGridWith(_flat_grid'), pt) = PointIndex(FlatGridWith(_flat_grid), pt)
      ]_vars

\* project_to_unit_cell(cache_result=False) has returned a projected grid
\* that differs from the cached one, which is still in the cache.
C9_Witness ==
    /\ IsCall(call, "project_to_unit_cell") /\ ~call.cache_result
    /\ IsArray(result) /\ IsArray(_flat_grid)
    /\ NRows(result) > 1
    /\ result.data # _flat_grid.data

ExactlyOneLatticeParameter(c) ==
    (c.real_space_lattice_parameter # None) # (c.k_space_lattice_parameter # None)

\* C10: project_to_unit_cell rejects, with an error and the cache unchanged,
\* every call that supplies neither or both of real_space_lattice_parameter
\* and k_space_lattice_parameter.
C10_ExactlyOneLatticeParameter ==
    [][ (IsCall(call', "project_to_unit_cell") /\ ~ExactlyOneLatticeParameter(call'))
        => (IsRaise(result') /\ _flat_grid' = _flat_grid) ]_vars

\* The part of C10 that holds: a call that supplies neither parameter is
\* rejected and leaves the cache unchanged.
C10_NeitherParameterRaises ==
    [][ ( /\ IsCall(call', "project_to_unit_cell")
          /\ call'.real_space_lattice_parameter = None
          /\ call'.k_space_lattice_parameter = None )
        => (IsRaise(result') /\ _flat_grid' = _flat_grid) ]_vars

\* C11: constructing a KSpaceGrid from boundaries and spacing whose key sets
\* differ fails and leaves no grid: with ValueError when the two mappings
\* have different numbers of keys, with KeyError when they have the same
\* number of keys and a spacing key is missing from boundaries.
C11_DifferentKeySetsRejected ==
    [][ IsCall(call', "__init__")
        => LET bnd == call'.cfg.boundaries
               spc == call'.cfg.spacing
           IN  /\ (KeySet(bnd) # KeySet(spc))
                      => (IsRaise(result') /\ spacing' = None /\ mesh' = MeshUnset)
               /\ (DictLen(bnd) # DictLen(spc))
                      => result' = Raise("ValueError")
               /\ (DictLen(bnd) = DictLen(spc) /\ ~(KeySet(spc) \subseteq KeySet(bnd)))
                      => result' = Raise("KeyError") ]_vars

\* A construction with as many spacing keys as boundary keys, one of them
\* missing from boundaries, has raised KeyError.
C11_Witness ==
    /\ IsCall(call, "__init__")
    /\ DictLen(call.cfg.boundaries) = DictLen(call.cfg.spacing)
    /\ KeySet(call.cfg.boundaries) # KeySet(call.cfg.spacing)
    /\ result = Raise("KeyError")
    /\ ~Constructed

\* C12: every constructed grid has 1, 2 or 3 axes and a mesh (a construction
\* with another number of axes fails).
C12_DimensionsOneToThree ==
    Constructed => (dimensions \in {1, 2, 3} /\ mesh # MeshUnset)

\* The part of C12 that holds: a grid of 1, 2 or 3 axes has a mesh of as many
\* arrays as axes.
C12_MeshOnOneToThreeAxes ==
    (Constructed /\ dimensions \in {1, 2, 3})
        => (mesh # MeshUnset /\ Len(mesh.items) = dimensions)

----------------------------------------------------------------------------
(* The assemblies and their terms                                          *)

\* The slots the effective 2D Coulomb term reads from its two mappings.
RequiredThicknesses == {"layer1", "interlayer", "layer2"}
RequiredDielectricConstants == {"substrate1", "layer1", "interlayer", "layer2", "substrate2"}

Requested(terms, term_name) == \E n \in 1..Len(terms) : terms[n] = term_name

\* A requested term lacks a physical parameter: a mass table, a mapping, or
\* a slot of a mapping.
MissingParameter(args) ==
    \/ /\ Requested(args.terms, "free_exciton")
       /\ (args.electron_effective_mass = None \/ args.hole_effective_mass = None)
    \/ /\ Requested(args.terms, "effective_2d_coulomb")
       /\ \/ args.thicknesses = None
          \/ args.dielectric_constants = None
          \/ ~(RequiredThicknesses \subseteq KeySet(args.thicknesses))
          \/ ~(RequiredDielectricConstants \subseteq KeySet(args.dielectric_constants))

\* C13: the construction of a MottWannier fails whenever a requested term
\* lacks a required physical parameter: a mass table of 'free_exciton', a
\* mapping of 'effective_2d_coulomb', or a layer, substrate or interlayer
\* slot of such a mapping.
C13_MissingParameterFailsConstruction ==
    [][ (IsCall(call', "MottWannier.__init__") /\ MissingParameter(call'.args))
        => IsRaise(result') ]_vars

\* The part of C13 that holds: when the first requested term is
\* 'free_exciton' without both mass tables, or 'effective_2d_coulomb'
\* without both mappings, the construction raises ValueError and binds no
\* assembly.
C13_AbsentTablesRaiseValueError ==
    [][ ( /\ IsCall(call', "MottWannier.__init__")
          /\ LET args == call'.args
             IN  /\ args.terms # <<>>
                 /\ \/ /\ args.terms[1] = "free_exciton"
                       /\ (args.electron_effective_mass = None \/ args.hole_effective_mass = None)
                    \/ /\ args.terms[1] = "effective_2d_coulomb"
                       /\ (args.thicknesses = None \/ args.dielectric_constants = None) )
        => (result' = Raise("ValueError") /\ hamiltonian' = hamiltonian) ]_vars

\* C14: an assembly that was constructed holds, in term_to_instance, an
\* instance for every identifier of its term list.
C14_EveryRequestedTermHasInstance ==
    hamiltonian # None
        => \A n \in 1..Len(hamiltonian.terms) :
              HasKey(hamiltonian.term_to_instance, hamiltonian.terms[n])

\* The part of C14 that holds: every identifier the loop of
\* MottWannier.__init__ has a branch for has its instance, of the class of
\* that branch.
C14_RecognisedTermsHaveInstances ==
    hamiltonian.tag = "MottWannier"
        => \A n \in 1..Len(hamiltonian.terms) :
              /\ hamiltonian.terms[n] = "free_exciton"
                    => Get(hamiltonian.term_to_instance, "free_exciton").tag = "FreeExciton"
              /\ hamiltonian.terms[n] = "effective_2d_coulomb"
                    => Get(hamiltonian.term_to_instance, "effective_2d_coulomb").tag
                           = "Effective2DCoulombPotential"

\* C15: on a grid of 1, 2 or 3 axes, a matrix that
\* MottWannier.get_hamiltonian returns is N x N, N being the number of rows
\* of the grid's current flat grid.
C15_MatrixIsPointCountSquare ==
    [][ ( /\ IsCall(call', "MottWannier.get_hamiltonian")
          /\ dimensions \in {1, 2, 3}
          /\ IsArray(result') )
        => result'.shape = <<NRows(CurrentFlatGrid), NRows(CurrentFlatGrid)>> ]_vars

\* What MottWannier.get_hamiltonian does allocate: as many rows and columns
\* as the flat grid has columns, all entries zero when no term contributes.
C15_MatrixIsAxisCountSquare ==
    [][ ( /\ IsCall(call', "MottWannier.get_hamiltonian")
          /\ dimensions \in {1, 2, 3}
          /\ IsArray(result') )
        => /\ result'.shape = <<dimensions, dimensions>>
           /\ \A m \in 1..Len(result'.data) : result'.data[m] = QZero ]_vars

\* Every instance of the assembly returns a contribution when it is asked
\* for the exciton `layer`.
TermsContribute(self, layer) ==
    /\ DictLen(self.term_to_instance) > 0
    /\ \A n \in 1..DictLen(self.term_to_instance) :
          LET instance == self.term_to_instance.items[n].value
              kwargs == Dict(<<S("exciton", Str(layer))>>)
          IN  CASE instance.tag = "FreeExciton" ->
                      IsArray(FreeExciton_get_hamiltonian_term(instance, kwargs))
                [] instance.tag = "Effective2DCoulombPotential" ->
                      IsArray(Effective2DCoulombPotential_get_hamiltonian_term(instance, kwargs))
                [] OTHER -> FALSE

\* C16: MottWannier.get_hamiltonian(layer) returns the matrix that is the
\* zero matrix plus the contribution of each requested term: it returns a
\* matrix whenever each of its term instances has a contribution for the
\* exciton `layer`.
C16_MatrixIsSumOfContributions ==
    [][ ( /\ IsCall(call', "MottWannier.get_hamiltonian")
          /\ dimensions \in {1, 2, 3}
          /\ TermsContribute(hamiltonian, call'.layer) )
        => IsArray(result') ]_vars

\* What MottWannier.get_hamiltonian does with a term it has an instance of:
\* the term is called with the keyword `layer`, finds no `exciton` and
\* raises ValueError.
C16_RecognisedTermRaises ==
    [][ ( /\ IsCall(call', "MottWannier.get_hamiltonian")
          /\ dimensions \in {1, 2, 3}
          /\ DictLen(hamiltonian.term_to_instance) > 0 )
        => result' = Raise("ValueError") ]_vars

\* The keys of BilayerExcitons: the valid exciton types.
BilayerExcitonsKeys == {"l1_l1", "l1_l2", "l2_l1", "l2_l2"}

\* C17: a MottWannierHamiltonian exists for every valid exciton type: the
\* construction with the term list ['kinetic_term'], a valid exciton and
\* mass tables that give this exciton a reduced mass succeeds.
C17_ValidExcitonIsAccepted ==
    [][ ( /\ IsCall(call', "MottWannierHamiltonian.__init__")
          /\ LET args == call'.args
             IN  /\ args.terms = <<"kinetic_term">>
                 /\ args.exciton \in BilayerExcitonsKeys
                 /\ args.electron_effective_mass # None
                 /\ args.hole_effective_mass # None
                 /\ HasKey(MottWannierHamiltonian_get_effective_mass(
                               args.electron_effective_mass, args.hole_effective_mass),
                           args.exciton) )
        => (result' = None /\ hamiltonian'.tag = "MottWannierHamiltonian") ]_vars

\* What the exciton setter does: every construction of a
\* MottWannierHamiltonian raises and binds no assembly.
C17_EveryConstructionRaises ==
    [][ IsCall(call', "MottWannierHamiltonian.__init__")
        => (IsRaise(result') /\ hamiltonian' = hamiltonian) ]_vars

\* C18: constructing a KineticTerm with a mass close to 0 raises ValueError
\* and binds no term; assigning a mass close to 0 raises ValueError and
\* leaves the term as it was; so the mass of a KineticTerm is never close to
\* 0, and get_hamiltonian_term never divides by zero.
C18_MassNeverCloseToZero ==
    [][ /\ (IsCall(call', "KineticTerm.__init__") /\ IsCloseToZero(call'.mass))
            => (result' = Raise("ValueError") /\ term' = term)
        /\ (IsCall(call', "KineticTerm.mass") /\ IsCloseToZero(call'.mass))
            => (result' = Raise("ValueError") /\ term' = term)
        /\ term'.tag = "KineticTerm"
            => (term'._mass # None /\ term'._mass # QZero /\ ~IsCloseToZero(term'._mass))
      ]_vars

\* The setter has raised ValueError for a nonzero mass within 1e-8 of zero,
\* and the term still holds the mass 1/2 it had.
C18_Witness ==
    /\ IsCall(call, "KineticTerm.mass")
    /\ call.mass # QZero /\ IsCloseToZero(call.mass)
    /\ result = Raise("ValueError")
    /\ term.tag = "KineticTerm" /\ term._mass = QRat(1, 2)

\* The vector of C19 for the flat grid fg and the mass: one entry per row,
\* the squared norm of the row over 2 * mass; for a positive mass no entry
\* is negative and the entry of a zero row is 0.
IsKineticVector(v, fg, mass) ==
    /\ IsArray(v)
    /\ Len(fg.shape) = 2
    /\ v.shape = <<NRows(fg)>>
    /\ \A i \in 0..(NRows(fg) - 1) :
          /\ QMul(v.data[i + 1], QMul(QInt(2), mass)) = SquaredNorm(Row(fg, i))
          /\ QSign(mass) = 1
                => /\ QSign(v.data[i + 1]) >= 0
                   /\ (\A k \in 1..fg.shape[2] : At(fg, i, k - 1) = QZero)
                          => v.data[i + 1] = QZero

\* C19: KineticTerm.get_hamiltonian_term returns a 1-D vector with one entry
\* per row of the grid's current flat grid, entry i being the squared norm
\* of row i over 2 * mass; for a positive mass no entry is negative and the
\* entry of a zero-momentum row is 0.
C19_KineticVector ==
    [][ IsCall(call', "KineticTerm.get_hamiltonian_term")
        => IsKineticVector(result', CurrentFlatGrid, term._mass) ]_vars

\* The part of C19 that holds: the vector on the grids of 1, 2 or 3 axes.
C19_KineticVectorOneToThreeAxes ==
    [][ (IsCall(call', "KineticTerm.get_hamiltonian_term") /\ dimensions \in {1, 2, 3})
        => IsKineticVector(result', CurrentFlatGrid, term._mass) ]_vars

\* The entries C20 calls for: one per pair of an electron layer key and a
\* hole layer key, the reduced mass of the pair.
HasReducedMasses(masses, electron_effective_mass, hole_effective_mass) ==
    /\ DictLen(masses) = DictLen(electron_effective_mass) * DictLen(hole_effective_mass)
    /\ \A i \in 1..DictLen(electron_effective_mass), j \in 1..DictLen(hole_effective_mass) :
          LET name == structure_key_to_exciton_key(KeyAt(electron_effective_mass, i)).value
                          \o "_"
                          \o structure_key_to_exciton_key(KeyAt(hole_effective_mass, j)).value
          IN  /\ HasKey(masses, name)
              /\ Lookup(masses, name).value
                     = QInv(QAdd(QInv(electron_effective_mass.items[i].value),
                                 QInv(hole_effective_mass.items[j].value)))

\* C20: constructing a FreeExciton from an electron and a hole table with
\* the same layer keys (layer1 and/or layer2) succeeds and stores, for each
\* pair of layers, the reduced mass 1 / (1/m_e + 1/m_h) under 'l{i}_l{j}'.
C20_ReducedMassTable ==
    [][ ( /\ IsCall(call', "FreeExciton.__init__")
          /\ KeySet(call'.electron_effective_mass) = KeySet(call'.hole_effective_mass)
          /\ KeySet(call'.electron_effective_mass) \subseteq {"layer1", "layer2"} )
        => /\ result' = None
           /\ term'.tag = "FreeExciton"
           /\ HasReducedMasses(term'.exciton_effective_mass,
                               call'.electron_effective_mass, call'.hole_effective_mass)
      ]_vars

\* What FreeExciton.__init__ does: it looks the tables up under the exciton
\* keys 'l1', 'l2' instead of the layer keys, so it raises KeyError for every
\* table that has a layer, and stores no entry for empty tables.
C20_NonEmptyTablesRaiseKeyError ==
    [][ ( /\ IsCall(call', "FreeExciton.__init__")
          /\ KeySet(call'.electron_effective_mass) = KeySet(call'.hole_effective_mass)
          /\ KeySet(call'.electron_effective_mass) \subseteq {"layer1", "layer2"} )
        => IF DictLen(call'.electron_effective_mass) = 0
           THEN result' = None /\ term'.exciton_effective_mass = Dict(<<>>)
           ELSE result' = Raise("KeyError") /\ term' = term
      ]_vars

----------------------------------------------------------------------------
(* Evaluation of the terms                                                  *)

IsTermEvaluation(c) ==
    c.op \in {"KineticTerm.get_hamiltonian_term", "FreeExciton.get_hamiltonian_term",
              "Effective2DCoulombPotential.get_hamiltonian_term"}

\* Two results are equal: the same exception, or arrays of the same shape
\* with the same entries.
SameResult(a, b) ==
    IF IsArray(a) /\ IsArray(b) THEN a.shape = b.shape /\ a.data = b.data ELSE a = b

\* C21: get_hamiltonian_term of a KineticTerm, a FreeExciton and an
\* Effective2DCoulombPotential leaves the grid's cache (empty or not, and
\* the values it holds), the grid and the term's stored parameters as they
\* were, and a call that repeats the call before it returns an equal result.
C21_TermEvaluationIsPure ==
    [][ IsTermEvaluation(call')
        => /\ _flat_grid' = _flat_grid
           /\ mesh' = mesh /\ spacing' = spacing /\ boundaries' = boundaries
           /\ term' = term
           /\ call = call' => SameResult(result, result')
      ]_vars

\* The Coulomb term has returned its matrix on a grid whose cache is, and
\* stays, empty.
C21_Witness ==
    /\ IsCall(call, "Effective2DCoulombPotential.get_hamiltonian_term")
    /\ IsArray(result) /\ NRows(result) > 1
    /\ _flat_grid = None
    /\ term.tag = "Effective2DCoulombPotential"

\* The selector of a get_hamiltonian_term call: the exciton keyword, or None.
Selector(c) == Get(c.kwargs, "exciton")

\* The selector is missing, or one of its layer parts is not l1 or l2.
BadSelector(c) ==
    \/ Selector(c) = None
    \/ \E n \in 1..Len(Split(Selector(c).value)) :
           Split(Selector(c).value)[n] \notin {"l1", "l2"}

\* C22: FreeExciton.get_hamiltonian_term raises ValueError for a missing
\* exciton selector and for an exciton absent from the reduced-mass table;
\* Effective2DCoulombPotential.get_hamiltonian_term, on a grid of two axes,
\* raises ValueError for a missing selector, a selector whose layer part is
\* not l1 or l2, and a missing thickness or dielectric constant of a
\* required layer, substrate or interlayer slot.
C22_ErrorsAreValueErrors ==
    [][ /\ ( /\ IsCall(call', "FreeExciton.get_hamiltonian_term")
              /\ \/ Selector(call') = None
                 \/ ~HasKey(term.exciton_effective_mass, Selector(call').value) )
            => result' = Raise("ValueError")
        /\ ( /\ IsCall(call', "Effective2DCoulombPotential.get_hamiltonian_term")
              /\ dimensions = 2
              /\ \/ BadSelector(call')
                 \/ ~(RequiredThicknesses \subseteq KeySet(term.thicknesses))
                 \/ ~(RequiredDielectricConstants \subseteq KeySet(term.dielectric_constants)) )
            => result' = Raise("ValueError")
      ]_vars

\* The part of C22 that holds: ValueError for a missing selector (both
\* terms), for a selector with a layer part other than l1, l2, for a missing
\* substrate or interlayer dielectric constant, and for a missing thickness
\* when the dielectric constants are complete.
C22_SelectorAndSlotErrors ==
    [][ /\ (IsCall(call', "FreeExciton.get_hamiltonian_term") /\ Selector(call') = None)
            => result' = Raise("ValueError")
        /\ ( /\ IsCall(call', "Effective2DCoulombPotential.get_hamiltonian_term")
              /\ dimensions = 2
              /\ \/ BadSelector(call')
                 \/ ~({"substrate1", "substrate2", "interlayer"}
                          \subseteq KeySet(term.dielectric_constants))
                 \/ /\ RequiredDielectricConstants \subseteq KeySet(term.dielectric_constants)
                    /\ ~(RequiredThicknesses \subseteq KeySet(term.thicknesses)) )
            => result' = Raise("ValueError")
      ]_vars

\* What the code does for the two other conditions: the lookups
\* self.exciton_effective_mass[exciton] and self.dielectric_constants[layer]
\* raise KeyError, which `except ValueError` does not catch.
C22_MissingKeysRaiseKeyError ==
    [][ /\ ( /\ IsCall(call', "FreeExciton.get_hamiltonian_term")
              /\ Selector(call') # None
              /\ ~HasKey(term.exciton_effective_mass, Selector(call').value) )
            => result' = Raise("KeyError")
        /\ ( /\ IsCall(call', "Effective2DCoulombPotential.get_hamiltonian_term")
              /\ dimensions = 2
              /\ ~BadSelector(call')
              /\ {"substrate1", "substrate2", "interlayer"}
                     \subseteq KeySet(term.dielectric_constants)
              /\ ~({"layer1", "layer2"} \subseteq KeySet(term.dielectric_constants)) )
            => result' = Raise("KeyError")
      ]_vars

----------------------------------------------------------------------------
(* Diagonalization                                                          *)

\* How often x occurs in seq.
Count(x, seq) == Cardinality({i \in 1..Len(seq) : seq[i] = x})

\* No entry of seq is smaller than the entry before it.
IsAscending(seq) == \A i \in 1..(Len(seq) - 1) : ~QLess(seq[i + 1], seq[i])

\* C23: diagonalize_hamiltonian without num_eigenvalues, on the diagonal
\* N x N matrix np.diag(v), returns N eigenvalues: the entries of v, each as
\* often as it occurs in v, in ascending order, so the first is the minimum
\* and the last the maximum of v; the matrix is as it was.
C23_FullDecompositionOfDiagonal ==
    [][ ( /\ IsCall(call', "diagonalize_hamiltonian")
          /\ Get(call'.kwargs, "num_eigenvalues") = None )
        => LET v == result.data
               w == result'.items[1].data
           IN  /\ IsDiagonal(Diag(result))
               /\ result'.items[1].shape = <<Len(v)>>
               /\ \A i \in 1..Len(v) : Count(v[i], w) = Count(v[i], v)
               /\ IsAscending(w)
               /\ \A i \in 1..Len(v) : ~QLess(v[i], w[1]) /\ ~QLess(w[Len(w)], v[i])
               /\ call'.hamiltonian = Diag(result)
      ]_vars

\* The full decomposition has returned the eigenvalues of a diagonal matrix
\* of at least three rows whose diagonal was not in ascending order.
C23_Witness ==
    /\ IsCall(call, "diagonalize_hamiltonian")
    /\ Get(call.kwargs, "num_eigenvalues") = None
    /\ NRows(call.hamiltonian) >= 3
    /\ ~IsAscending(Diagonal(call.hamiltonian))
    /\ IsAscending(result.items[1].data)
    /\ Len(result.items[1].data) = NRows(call.hamiltonian)

\* C24: diagonalize_hamiltonian returns all N eigenvalues when
\* num_eigenvalues is unset; with num_eigenvalues = k, 1 <= k < N, it
\* returns k eigenvalues and k eigenvectors, the eigenvalues being entries
\* of the diagonal such that no eigenvalue left out has a smaller magnitude
\* than one returned.
C24_PartialPathSmallestMagnitude ==
    [][ IsCall(call', "diagonalize_hamiltonian")
        => LET k == Get(call'.kwargs, "num_eigenvalues")
               v == result.data
               w == result'.items[1].data
           IN  /\ k = None => Len(w) = Len(v)
               /\ k # None
                    => /\ Len(w) = k.value
                       /\ result'.items[2].shape = <<Len(v), k.value>>
                       /\ \A i \in 1..Len(v) :
                             /\ Count(v[i], w) <= Count(v[i], v)
                             /\ Count(v[i], w) < Count(v[i], v)
                                   => \A j \in 1..Len(w) : ~QLess(QAbs(v[i]), QAbs(w[j]))
                       /\ \A j \in 1..Len(w) : Count(w[j], v) > 0
      ]_vars

\* The partial path has returned one eigenvalue, 0, of a diagonal matrix
\* that has negative entries: the smallest magnitude, not the lowest value.
C24_Witness ==
    /\ IsCall(call, "diagonalize_hamiltonian")
    /\ Get(call.kwargs, "num_eigenvalues") = IntResult(1)
    /\ result.items[1].data = <<QZero>>
    /\ \E i \in 1..NRows(call.hamiltonian) : QSign(Diagonal(call.hamiltonian)[i]) < 0

----------------------------------------------------------------------------
(* The effective 2D Coulomb potential                                       *)

\* The smallest spacing of the grid's axes.
MinSpacing ==
    CHOOSE d \in {AxisSpacing(k) : k \in 1..dimensions} :
        \A k \in 1..dimensions : d <= AxisSpacing(k)

\* Every entry of the potential w was computed with q_c = q: the prefactor
\* holds q, every diagonal entry of the kernel is q / 4 (the square root of
\* q**2 / 16), and every other entry of the kernel is that of
\* generate_coulomb_kernel.
RegularizedWith(w, q) ==
    \A i, j \in 0..(NRows(w) - 1) :
        /\ At(w, i, j).q_c_squared = QInt(q * q)
        /\ At(w, i, j).k = IF i = j
                           THEN [is |-> "sqrt", value |-> QRat(q * q, 16)]
                           ELSE [is |-> "value", value |-> At(generate_coulomb_kernel, i, j)]

\* C25: on a grid of two axes with no projection in effect, the q_c of
\* Effective2DCoulombPotential.get_hamiltonian_term, in the prefactor and on
\* the kernel's diagonal, is the smallest spacing of the grid; no
\* off-diagonal entry of the kernel is changed.
C25_QcIsMinimumSpacing ==
    [][ ( /\ IsCall(call', "Effective2DCoulombPotential.get_hamiltonian_term")
          /\ dimensions = 2 /\ Unprojected
          /\ IsArray(result') )
        => RegularizedWith(result', MinSpacing) ]_vars

\* What q_c is on such a grid: the distance between the first two rows of
\* the flat grid, the spacing of the last axis.
C25_QcIsLastAxisSpacing ==
    [][ ( /\ IsCall(call', "Effective2DCoulombPotential.get_hamiltonian_term")
          /\ dimensions = 2 /\ Unprojected
          /\ IsArray(result') )
        => RegularizedWith(result', AxisSpacing(2)) ]_vars

\* C26: the exciton setter of MottWannierHamiltonian, which the constructor
\* assigns through, accepts an exciton exactly when it is one of l1_l1,
\* l1_l2, l2_l1, l2_l2, and raises ValueError for every other string.
C26_SetterAcceptsTheFourExcitons ==
    [][ IsCall(call', "MottWannierHamiltonian.__init__")
        => LET set == MottWannierHamiltonian_exciton_setter(call'.args.exciton)
           IN  /\ call'.args.exciton \in BilayerExcitonsKeys => set = None
               /\ call'.args.exciton \notin BilayerExcitonsKeys
                     => (set = Raise("ValueError") /\ result' = Raise("ValueError"))
      ]_vars

\* The part of C26 that holds: a string that is none of the four keys is
\* rejected with ValueError, and no assembly is bound.
C26_OtherStringsAreRejected ==
    [][ ( /\ IsCall(call', "MottWannierHamiltonian.__init__")
          /\ call'.args.exciton \notin BilayerExcitonsKeys )
        => (result' = Raise("ValueError") /\ hamiltonian' = hamiltonian) ]_vars

\* Layer i of a selector part l{i}.
LayerOf(part) == IF part = "l1" THEN "layer1" ELSE "layer2"

\* C27: for the selector l{i}_l{j}, every entry of the potential is computed
\* with the intralayer dielectric function, the reference layer layer{i},
\* the opposite layer as coupled layer and the substrate next to layer{i} as
\* reference substrate when i = j, and with the interlayer dielectric
\* function, the reference layer layer{i} and the coupled layer layer{j}
\* when i # j.
C27_DielectricFunctionOfSelector ==
    [][ ( /\ IsCall(call', "Effective2DCoulombPotential.get_hamiltonian_term")
          /\ IsArray(result') )
        => LET parts == Split(Selector(call').value)
               ref == LayerOf(parts[1])
               opposite == IF ref = "layer1" THEN "layer2" ELSE "layer1"
           IN  \A m \in 1..Len(result'.data) :
                  LET eps == result'.data[m].eps
                  IN  /\ eps.ref_layer = ref
                      /\ eps.eps_1 = (IF ref = "layer1" THEN "substrate1" ELSE "substrate2")
                      /\ (eps.kind = "intralayer") = (parts[1] = parts[2])
                      /\ (eps.kind = "interlayer") = (parts[1] # parts[2])
                      /\ eps.coupled_layer = (IF parts[1] = parts[2] THEN opposite
                                              ELSE LayerOf(parts[2]))
      ]_vars

\* The term has returned the potential of the exciton l2_l2: intralayer, on
\* layer2 with layer1 coupled and substrate2 as reference substrate.
C27_Witness ==
    /\ IsCall(call, "Effective2DCoulombPotential.get_hamiltonian_term")
    /\ Selector(call) = Str("l2_l2")
    /\ IsArray(result)
    /\ result.data[1].eps.kind = "intralayer"
    /\ result.data[1].eps.ref_layer = "layer2"
    /\ result.data[1].eps.coupled_layer = "layer1"
    /\ result.data[1].eps.eps_1 = "substrate2"

\* A projection that returned an array, with or without caching it.
IsProjection(c, r, cached) ==
    IsCall(c, "project_to_unit_cell") /\ c.cache_result = cached /\ IsArray(r)

\* The basis a projection call multiplies the flat grid with.
CellOf(c) ==
    get_k_space_hexagonal_cell(c.real_space_lattice_parameter, c.k_space_lattice_parameter).m

\* An array has a row that is not the origin.
HasNonZeroRow(a) == \E l \in 1..Len(a.data) : a.data[l] # QZero

\* C28: project_to_unit_cell transforms whatever flat_grid() returns at the
\* time of the call.  Of two successive calls with cache_result=True the
\* second returns the transform of the result of the first, so with the same
\* arguments it does not return the first result again; calls with
\* cache_result=False on a cache that is empty or holds the enumeration of
\* the mesh return the single transform of that enumeration, the same at
\* every repetition.
C28_ProjectionTransformsCurrentFlatGrid ==
    [][ /\ (IsCall(call', "project_to_unit_cell") /\ IsArray(result'))
            => result'.data = Dot(FlatGridWith(_flat_grid), CellOf(call')).data
        /\ (IsProjection(call, result, TRUE) /\ IsProjection(call', result', TRUE))
            => /\ result'.data = Dot(result, CellOf(call')).data
               /\ result'.shape = result.shape
               /\ (call' = call /\ HasNonZeroRow(result)) => result'.data # result.data
        /\ ( /\ IsProjection(call', result', FALSE)
             /\ (_flat_grid = None \/ _flat_grid.data = ComputeFlatGrid.data) )
            => /\ result'.data = Dot(ComputeFlatGrid, CellOf(call')).data
               /\ (IsProjection(call, result, FALSE) /\ call' = call)
                    => (result'.data = result.data /\ result'.shape = result.shape)
      ]_vars

\* Two projections with cache_result=True have followed one another with the
\* same arguments: the cache holds the second result, which is the transform
\* of a grid that was itself a projection and differs from the single
\* transform of the enumeration of the mesh.
C28_Witness ==
    /\ IsProjection(call, result, TRUE)
    /\ n_projections = 2
    /\ _flat_grid = result
    /\ result.data = Dot(Dot(ComputeFlatGrid, CellOf(call)), CellOf(call)).data
    /\ result.data # Dot(ComputeFlatGrid, CellOf(call)).data

\* A square two-dimensional array equal to its transpose.
IsSymmetric(a) ==
    /\ Len(a.shape) = 2 /\ a.shape[1] = a.shape[2]
    /\ \A i, j \in 0..(a.shape[1] - 1) : At(a, i, j) = At(a, j, i)

\* A square array whose diagonal entries are all zero.
HasZeroDiagonal(a) == \A i \in 0..(a.shape[1] - 1) : At(a, i, i) = QZero

\* What generate_coulomb_kernel gave is an exception, or a symmetric array
\* with a zero diagonal.
IsSymmetricKernel(k_grid) ==
    IsArray(k_grid) => (IsSymmetric(k_grid) /\ HasZeroDiagonal(k_grid))

\* C29: whenever the Coulomb term is evaluated, the kernel it generates, if
\* it generates one, is symmetric with a zero diagonal; the potential it
\* returns is a symmetric matrix; and every matrix get_hamiltonian of a
\* Mott-Wannier assembly returns is symmetric.
C29_MatricesAreSymmetric ==
    [][ /\ IsCall(call', "Effective2DCoulombPotential.get_hamiltonian_term")
            => /\ IsSymmetricKernel(generate_coulomb_kernel)
               /\ IsArray(result') => IsSymmetric(result')
        /\ (IsCall(call', "MottWannier.get_hamiltonian") /\ IsArray(result'))
            => IsSymmetric(result')
      ]_vars

\* The Coulomb term has returned the potential on a grid of four points or
\* more held in the cache as a projection: the matrix is not constant off
\* its diagonal, and entry (0, 2) equals entry (2, 0).
C29_Witness ==
    /\ IsCall(call, "Effective2DCoulombPotential.get_hamiltonian_term")
    /\ IsArray(result)
    /\ result.shape[1] >= 4
    /\ n_projections > 0 /\ ~Unprojected
    /\ At(result, 0, 1) # At(result, 0, 2)
    /\ At(result, 0, 2) = At(result, 2, 0)

\* The squared distance between rows i and j of the points.
SquaredDistance(points, i, j) ==
    SquaredNorm([c \in 1..points.shape[2] |-> QSub(At(points, i, c - 1), At(points, j, c - 1))])

\* The result of an evaluation is the one computed on the given points:
\* the kinetic energies of their rows; a potential whose entry (i, j),
\* i # j, holds the squared distance between rows i and j; a matrix of an
\* assembly sized as MottWannier sizes it, by the columns of the points.
ComputedOn(c, r, points) ==
    /\ IsCall(c, "KineticTerm.get_hamiltonian_term")
        => SameResult(r, KineticEnergies(NDArray(0, points.shape, points.data), term._mass))
    /\ (IsCall(c, "Effective2DCoulombPotential.get_hamiltonian_term") /\ IsArray(r))
        => /\ r.shape = <<NRows(points), NRows(points)>>
           /\ \A i, j \in 0..(NRows(points) - 1) :
                 i # j => At(r, i, j).k.value = SquaredDistance(points, i, j)
    /\ (IsCall(c, "MottWannier.get_hamiltonian") /\ IsArray(r))
        => r.shape = <<points.shape[2], points.shape[2]>>

\* An evaluation of a term or of an assembly.
IsEvaluation(c) == IsTermEvaluation(c) \/ IsCall(c, "MottWannier.get_hamiltonian")

\* C30: every evaluation of a term or of an assembly is computed on what
\* the grid's flat_grid() returns at the time of the evaluation.  When the
\* call before it was project_to_unit_cell(cache_result=True), that is the
\* projection just returned; when it was deallocate_flat_grid(), it is the
\* enumeration of the mesh; and the object that is not evaluated, term or
\* assembly, is left as it was, to be evaluated on the same points.
C30_EvaluationReadsCurrentGrid ==
    [][ IsEvaluation(call')
        => /\ ComputedOn(call', result', FlatGridWith(_flat_grid))
           /\ IsProjection(call, result, TRUE)
                => (_flat_grid = result /\ ComputedOn(call', result', result))
           /\ IsCall(call, "deallocate_flat_grid")
                => (_flat_grid = None /\ ComputedOn(call', result', ComputeFlatGrid))
           /\ term' = term /\ hamiltonian' = hamiltonian /\ _flat_grid' = _flat_grid
      ]_vars

\* While the grid holds a projection, with a kinetic term and an assembly
\* both built on it, the term has returned the energies of the projected
\* points, which are not those of the enumeration of the mesh.
C30_Witness ==
    /\ IsCall(call, "KineticTerm.get_hamiltonian_term")
    /\ IsArray(result)
    /\ term.tag = "KineticTerm" /\ hamiltonian.tag = "MottWannier"
    /\ n_projections > 0 /\ ~Unprojected
    /\ result.data = KineticEnergies(_flat_grid, term._mass).data
    /\ result.data # KineticEnergies(NDArray(0, ComputeFlatGrid.shape, ComputeFlatGrid.data),
                                      term._mass).data

====
